---- MODULE Spec2Model ----
(***************************************************************************)
(* Model of the AudioWhisper ML daemon (Sources/ml): the JSON-RPC loop of  *)
(* rpc.py, the model cache and offline guard of loader.py, and the         *)
(* transcription and correction operations of parakeet.py / correction.py. *)
(***************************************************************************)
EXTENDS Integers, Sequences, FiniteSets, TLC

(***************************************************************************)
(* Bounds of the model.                                                    *)
(***************************************************************************)
\* number of input lines the daemon reads before end of input
MaxLines == 3
\* number of pieces a generated text is put together from
MaxPieces == 5
\* number of words of the longest text a token budget is computed for
MaxWords == 1025
\* number of items of the longest list model.generate returns
MaxItems == 2

(***************************************************************************)
(* Python values, as json.loads produces them and json.dumps writes them.  *)
(***************************************************************************)
None == [t |-> "None"]
PyBool(b) == [t |-> "bool", v |-> b]
PyInt(n) == [t |-> "int", v |-> n]
\* a str the program only passes around or compares, by its name
PyStr(s) == [t |-> "str", v |-> s]
\* a str the program looks into, as the sequence of its characters
PyText(cs) == [t |-> "str", c |-> cs]
PyList(s) == [t |-> "list", v |-> s]
PyDict(f) == [t |-> "dict", v |-> f]

\* bool(v): the truth value Python's `not v` / `v or d` tests
Truthy(v) ==
    CASE v.t = "None" -> FALSE
      [] v.t = "bool" -> v.v
      [] v.t = "int" -> v.v # 0
      [] v.t = "str" -> IF "c" \in DOMAIN v THEN v.c # <<>> ELSE v.v # ""
      [] v.t = "list" -> v.v # <<>>
      [] v.t = "dict" -> DOMAIN v.v # {}
      [] OTHER -> TRUE

\* d.get(k): the value under k, None when the key is absent
Get(d, k) == IF k \in DOMAIN d.v THEN d.v[k] ELSE None

\* `a or b`
Or(a, b) == IF Truthy(a) THEN a ELSE b

\* v == "literal" on a value that may be of any type
IsStr(v, s) == v.t = "str" /\ v.v = s

(***************************************************************************)
(* Program constants.                                                      *)
(***************************************************************************)
DEFAULT_PARAKEET_REPO == "mlx-community/parakeet-tdt-0.6b-v3"
HF_ENV_KEYS == {"HF_HUB_OFFLINE", "TRANSFORMERS_OFFLINE"}
JSONRPC == "2.0"

(***************************************************************************)
(* The input stream: what each line read from standard input is.  A line   *)
(* is blank (line.strip() is empty), or json.loads rejects it, or          *)
(* json.loads returns the value it denotes.                                *)
(***************************************************************************)
Line(blank, valid, value) == [blank |-> blank, valid |-> valid, value |-> value]

\* marks a key left out of a request while building it (never a value)
Absent == [t |-> "absent"]

\* the dict holding the pairs of kv whose value is not Absent
Dict(kv) ==
    LET present == {p \in kv : p[2] # Absent}
    IN  PyDict([k \in {p[1] : p \in present} |->
                  (CHOOSE p \in present : p[1] = k)[2]])

Req(id, method, params) ==
    Dict({<<"id", id>>, <<"method", method>>, <<"params", params>>})

Repos == {"A", "B"}
Ids == {Absent, None, PyInt(1), PyStr("a")}

PingRequests ==
    {Req(i, PyStr("ping"), Dict({})) : i \in Ids}
    \cup {Req(PyInt(1), PyStr("ping"), p) : p \in {Absent, PyInt(5)}}

UnknownRequests ==
    {Req(i, m, Absent) : i \in {Absent, PyInt(1)},
                         m \in {Absent, PyStr("shutdown"), PyInt(3)}}

TranscribeRequests ==
    {Req(PyInt(2), PyStr("transcribe"),
         Dict({<<"repo", r>>, <<"pcm_path", p>>})) :
        r \in {Absent, PyStr("A")},
        p \in {Absent, PyStr(""), PyStr("/no/such/file"),
               PyStr("/locked.pcm"), PyStr("/audio.pcm")}}
    \cup {Req(PyInt(2), PyStr("transcribe"), PyList(<<PyInt(1)>>))}

CorrectRequests ==
    {Req(PyInt(3), PyStr("correct"),
         Dict({<<"repo", r>>, <<"text", t>>, <<"prompt", Absent>>})) :
        r \in {Absent, PyStr(""), PyStr("A"), PyStr("B")},
        t \in {Absent, None, PyText(<<>>), PyText(<<"u", "m", " ", "h", "i">>)}}
    \cup {Req(PyInt(3), PyStr("correct"),
              Dict({<<"repo", PyStr("A")>>, <<"text", t>>, <<"prompt", p>>})) :
            t \in {PyText(<<"u", "m", " ", "h", "i">>), PyInt(7)},
            p \in {PyText(<<" ">>), PyText(<<"f", "i", "x", " ">>)}}

WarmupRequests ==
    {Req(PyInt(4), PyStr("warmup"),
         Dict({<<"type", t>>, <<"repo", r>>})) :
        t \in {Absent, PyStr("parakeet"), PyStr("mlx"), PyStr("correction"),
               PyStr("gpu")},
        r \in {Absent, PyStr("A"), PyStr("B")}}

Requests ==
    PingRequests \cup UnknownRequests \cup TranscribeRequests
    \cup CorrectRequests \cup WarmupRequests

BlankLines == {Line(TRUE, FALSE, None)}
InvalidLines == {Line(FALSE, FALSE, None)}
NonObjectLines ==
    {Line(FALSE, TRUE, v) : v \in {None, PyInt(5), PyStr("ping"), PyList(<<>>)}}
RequestLines == {Line(FALSE, TRUE, r) : r \in Requests}
Lines == BlankLines \cup InvalidLines \cup NonObjectLines \cup RequestLines

(***************************************************************************)
(* The environment of one request: which imports fail, which files exist.  *)
(***************************************************************************)
Modules == {"numpy", "mlx.core", "parakeet_mlx.audio", "parakeet_mlx", "mlx_lm"}

\* the modules the handling of a request may import
ImportedBy(request) ==
    LET method == IF request.t = "dict" THEN Get(request, "method") ELSE None
    IN  IF IsStr(method, "transcribe")
        THEN {"numpy", "mlx.core", "parakeet_mlx.audio", "parakeet_mlx"}
        ELSE IF IsStr(method, "correct") THEN {"mlx_lm"}
        ELSE IF IsStr(method, "warmup") THEN {"parakeet_mlx", "mlx_lm"}
        ELSE {}

\* the sets of modules whose import fails while one request is handled: none,
\* or one of those the request may import
BrokenChoices(request) == {{}} \cup {{m} : m \in ImportedBy(request)}

\* os.path.exists(path)
FileExists(path) == path \in {"/locked.pcm", "/audio.pcm"}

\* os.access(path, os.R_OK)
FileReadable(path) == path = "/audio.pcm"

(***************************************************************************)
(* Responses (rpc.py).  A message is the sequence of the parts of the      *)
(* f-string that builds it; "<exc>" stands for a library's exception text. *)
(***************************************************************************)
ResultPayload(req_id, result) ==
    [jsonrpc |-> JSONRPC, id |-> req_id, result |-> result]

\* mutant of ErrorPayload: the error response also carries a result key
ErrorPayloadWithResult(req_id, message) ==
    [jsonrpc |-> JSONRPC, id |-> req_id, result |-> None,
     error |-> [message |-> message]]

\* mutant of ErrorPayload: the error response drops the request's id
ErrorPayloadNullId(req_id, message) ==
    [jsonrpc |-> JSONRPC, id |-> None, error |-> [message |-> message]]

ErrorPayload(req_id, message) ==
    [jsonrpc |-> JSONRPC, id |-> req_id, error |-> [message |-> message]]

\* mutant of InvalidJsonPayload: the message is the bare text of the exception
InvalidJsonPayloadBareMessage ==
    [jsonrpc |-> JSONRPC, id |-> None, error |-> [message |-> <<"<exc>">>]]

\* the payload main() writes when json.loads raises JSONDecodeError
InvalidJsonPayload ==
    [jsonrpc |-> JSONRPC, id |-> None,
     error |-> [message |-> <<"Invalid JSON: ", "<exc>">>]]

(***************************************************************************)
(* loader.py: cache keys, the offline guard.                               *)
(***************************************************************************)
CacheKeys == {"parakeet", "mlx"} \X (Repos \cup {DEFAULT_PARAKEET_REPO})

\* mutant of CorrectionKey: one kind of key for the two kinds of model
CorrectionKeyAsParakeet(repo) == <<"parakeet", repo.v>>

ParakeetKey(repo) == <<"parakeet", repo.v>>
CorrectionKey(repo) == <<"mlx", repo.v>>

\* mutant of OfflineEnv: only HF_HUB_OFFLINE is forced
OfflineEnvHubOnly(e) ==
    [k \in HF_ENV_KEYS |-> IF k = "HF_HUB_OFFLINE" THEN PyStr("1") ELSE e[k]]

\* os.environ restricted to HF_ENV_KEYS: the value of each, None when unset.
\* What _set_offline_env leaves in os.environ:
OfflineEnv(e) ==
    [k \in HF_ENV_KEYS |-> PyStr("1")]

\* mutant of RestoredEnv: a flag that was unset is left as the guard set it
RestoredEnvKeepsUnset(e, previous) ==
    [k \in HF_ENV_KEYS |-> IF previous[k] = None THEN e[k] ELSE previous[k]]

\* what _restore_env leaves in os.environ, given the saved values
RestoredEnv(e, previous) ==
    [k \in HF_ENV_KEYS |->
        IF previous[k] = None THEN None   \* os.environ.pop(key, None)
        ELSE previous[k]]

\* the message of the RuntimeError a failed offline load is turned into
OfflineMessage(key) ==
    IF key[1] = "parakeet"
    THEN <<"Model not available offline: ", "<exc>">>
    ELSE <<"MLX model not available offline. Please open Settings to download it.">>

\* mutant of LoaderImportMessage: the import error is left out
LoaderImportMessageBare(key) ==
    IF key[1] = "parakeet"
    THEN <<"parakeet-mlx import failed: ">>
    ELSE <<"mlx-lm import failed: ">>

\* the message of the RuntimeError a failed import in the loader is turned into
LoaderImportMessage(key) ==
    IF key[1] = "parakeet"
    THEN <<"parakeet-mlx import failed: ", "<exc>">>
    ELSE <<"mlx-lm import failed: ", "<exc>">>

\* the module each loader imports
LoaderModule(key) == IF key[1] = "parakeet" THEN "parakeet_mlx" ELSE "mlx_lm"

(***************************************************************************)
(* State.                                                                  *)
(***************************************************************************)
VARIABLES
    pc,         \* where the daemon is: "read" (main's for loop, between
                \* lines), "loading" (inside from_pretrained / mlx_lm.load),
                \* "infer" (transcribe, model in hand), "generate" (correct,
                \* model in hand), "exit" (main returned 0), "crashed" (an
                \* exception left main)
    line,       \* the input line read last (NoLine before the first)
    nonblank,   \* history: for each line read so far, whether it was non-blank
    out,        \* the payloads written to standard output since the last
                \* line was read
    outLine,    \* history: for each payload written to standard output since
                \* daemon start, the number of the input line that was being
                \* processed when it was written
    cur,        \* the locals of the request being handled
    cache,      \* MODEL_CACHE
    env,        \* os.environ on HF_ENV_KEYS
    env0,       \* history: os.environ on HF_ENV_KEYS at daemon start
    loadCalls,  \* history: per cache key, the calls of the underlying load
    loadReturns,\* history: per cache key, the calls of it that returned
    reqLoads    \* history: the calls of the underlying load made since the
                \* last line was read

vars == <<pc, line, nonblank, out, outLine, cur, cache, env, env0, loadCalls,
          loadReturns, reqLoads>>

Idle == [method |-> "none"]

NoLine == [blank |-> TRUE, valid |-> FALSE, value |-> None, none |-> TRUE]

\* the environments the daemon is started in
StartEnvs ==
    {[HF_HUB_OFFLINE |-> None, TRANSFORMERS_OFFLINE |-> None],
     [HF_HUB_OFFLINE |-> PyStr("0"), TRANSFORMERS_OFFLINE |-> None],
     [HF_HUB_OFFLINE |-> PyStr("1"), TRANSFORMERS_OFFLINE |-> PyStr("0")]}

Init ==
    /\ pc = "read"
    /\ line = NoLine
    /\ nonblank = <<>>
    /\ out = <<>>
    /\ outLine = <<>>
    /\ cur = Idle
    /\ cache = <<>>
    /\ env0 \in StartEnvs
    /\ env = env0
    /\ loadCalls = [k \in CacheKeys |-> 0]
    /\ loadReturns = [k \in CacheKeys |-> 0]
    /\ reqLoads = 0

(***************************************************************************)
(* _handle_request, up to its first call into a model library.  The        *)
(* outcome is one of: a payload to write, a crash (an exception outside    *)
(* the try block), a cache hit, or an underlying load to start.            *)
(***************************************************************************)
\* str(v)
Str(v) ==
    CASE v.t = "None" -> "None"
      [] v.t = "str" -> v.v
      [] v.t = "int" -> ToString(v.v)
      [] OTHER -> "<repr>"

Respond(payload) == [kind |-> "respond", payload |-> payload]

\* the locals of _handle_request and of the operation it calls
Locals(method, req_id, key, pcm_path, text, prompt) ==
    [method |-> method, req_id |-> req_id, key |-> key, pcm_path |-> pcm_path,
     text |-> text, prompt |-> prompt, previous |-> None,
     chat_prompt |-> <<>>, chat_prompt_no_think |-> <<>>, max_tokens |-> 0,
     attempt |-> 0, sampling |-> FALSE, cleaned |-> <<>>, events |-> <<>>]

\* params.get on a params that is not a dict: AttributeError, inside the try
NoGetMessage(params) == <<"'", params.t, "' object has no attribute 'get'">>

\* mutant of Loader: the cache is not consulted
LoaderNoCacheCheck(key, locals, broken) ==
    IF LoaderModule(key) \in broken
    THEN Respond(ErrorPayload(locals.req_id, LoaderImportMessage(key)))
    ELSE [kind |-> "load", locals |-> locals]

\* mutant of Loader: a warmup loads its model whether it is cached or not
LoaderWarmupAlwaysLoads(key, locals, broken) ==
    IF key \in DOMAIN cache /\ locals.method # "warmup"
    THEN [kind |-> "hit", locals |-> locals]
    ELSE IF LoaderModule(key) \in broken
    THEN Respond(ErrorPayload(locals.req_id, LoaderImportMessage(key)))
    ELSE [kind |-> "load", locals |-> locals]

\* load_parakeet_model / load_correction_model up to the underlying load
Loader(key, locals, broken) ==
    IF key \in DOMAIN cache
    THEN [kind |-> "hit", locals |-> locals]
    ELSE IF LoaderModule(key) \in broken
    THEN Respond(ErrorPayload(locals.req_id, LoaderImportMessage(key)))
    ELSE [kind |-> "load", locals |-> locals]

\* mutant of Transcribe: the model is loaded before the file is looked at
TranscribeLoadsFirst(req_id, repo, pcm_path, broken) ==
    LET l == Loader(ParakeetKey(repo),
                    Locals("transcribe", req_id, ParakeetKey(repo), pcm_path,
                           None, None),
                    broken)
    IN  IF l.kind # "hit"
        THEN l
        ELSE IF ~FileExists(pcm_path.v)
        THEN Respond(ErrorPayload(req_id, <<"PCM file not found: ", pcm_path.v>>))
        ELSE IF ~FileReadable(pcm_path.v)
        THEN Respond(ErrorPayload(req_id, <<"Cannot read PCM file: ", pcm_path.v>>))
        ELSE l

\* parakeet.transcribe up to load_parakeet_model
Transcribe(req_id, repo, pcm_path, broken) ==
    IF ~FileExists(pcm_path.v)
    THEN Respond(ErrorPayload(req_id, <<"PCM file not found: ", pcm_path.v>>))
    ELSE IF ~FileReadable(pcm_path.v)
    THEN Respond(ErrorPayload(req_id, <<"Cannot read PCM file: ", pcm_path.v>>))
    ELSE IF "numpy" \in broken
    THEN Respond(ErrorPayload(req_id, <<"numpy import failed: ", "<exc>">>))
    ELSE IF "mlx.core" \in broken
    THEN Respond(ErrorPayload(req_id, <<"mlx.core import failed: ", "<exc>">>))
    ELSE IF "parakeet_mlx.audio" \in broken
    THEN Respond(ErrorPayload(req_id,
                              <<"parakeet_mlx.audio import failed: ", "<exc>">>))
    ELSE Loader(ParakeetKey(repo),
                Locals("transcribe", req_id, ParakeetKey(repo), pcm_path,
                       None, None),
                broken)

\* mutant of HandleTranscribe: a request without repo gets a repo other than
\* DEFAULT_PARAKEET_REPO
HandleTranscribeOtherDefault(req_id, params, broken) ==
    IF params.t # "dict"
    THEN Respond(ErrorPayload(req_id, NoGetMessage(params)))
    ELSE LET repo == Or(Get(params, "repo"), PyStr("A"))
             pcm_path == Get(params, "pcm_path")
         IN  IF ~Truthy(pcm_path)
             THEN Respond(ErrorPayload(req_id,
                                       <<"pcm_path is required for transcribe">>))
             ELSE Transcribe(req_id, repo, pcm_path, broken)

HandleTranscribe(req_id, params, broken) ==
    IF params.t # "dict"
    THEN Respond(ErrorPayload(req_id, NoGetMessage(params)))
    ELSE LET repo == Or(Get(params, "repo"), PyStr(DEFAULT_PARAKEET_REPO))
             pcm_path == Get(params, "pcm_path")
         IN  IF ~Truthy(pcm_path)
             THEN Respond(ErrorPayload(req_id,
                                       <<"pcm_path is required for transcribe">>))
             ELSE Transcribe(req_id, repo, pcm_path, broken)

\* mutant of HandleCorrect: text is validated before repo
HandleCorrectTextFirst(req_id, params, broken) ==
    IF params.t # "dict"
    THEN Respond(ErrorPayload(req_id, NoGetMessage(params)))
    ELSE LET repo == Get(params, "repo")
             text == Get(params, "text")
             prompt == Get(params, "prompt")
         IN  IF text = None
             THEN Respond(ErrorPayload(req_id, <<"text is required for correct">>))
             ELSE IF ~Truthy(repo)
             THEN Respond(ErrorPayload(req_id, <<"repo is required for correct">>))
             ELSE Loader(CorrectionKey(repo),
                         Locals("correct", req_id, CorrectionKey(repo), None,
                                text, prompt),
                         broken)

HandleCorrect(req_id, params, broken) ==
    IF params.t # "dict"
    THEN Respond(ErrorPayload(req_id, NoGetMessage(params)))
    ELSE LET repo == Get(params, "repo")
             text == Get(params, "text")
             prompt == Get(params, "prompt")
         IN  IF ~Truthy(repo)
             THEN Respond(ErrorPayload(req_id, <<"repo is required for correct">>))
             ELSE IF text = None
             THEN Respond(ErrorPayload(req_id, <<"text is required for correct">>))
             ELSE Loader(CorrectionKey(repo),
                         Locals("correct", req_id, CorrectionKey(repo), None,
                                text, prompt),
                         broken)

\* mutant of HandleWarmup: a type that is not "parakeet" is taken for a
\* correction model instead of being refused
HandleWarmupAnyOtherType(req_id, params, broken) ==
    IF params.t # "dict"
    THEN Respond(ErrorPayload(req_id, NoGetMessage(params)))
    ELSE LET warm_type == Get(params, "type")
             repo == Get(params, "repo")
         IN  IF ~Truthy(warm_type) \/ ~Truthy(repo)
             THEN Respond(ErrorPayload(req_id,
                                       <<"warmup requires 'type' and 'repo'">>))
             ELSE IF IsStr(warm_type, "parakeet")
             THEN Loader(ParakeetKey(repo),
                         Locals("warmup", req_id, ParakeetKey(repo), None,
                                None, None),
                         broken)
             ELSE Loader(CorrectionKey(repo),
                         Locals("warmup", req_id, CorrectionKey(repo), None,
                                None, None),
                         broken)

HandleWarmup(req_id, params, broken) ==
    IF params.t # "dict"
    THEN Respond(ErrorPayload(req_id, NoGetMessage(params)))
    ELSE LET warm_type == Get(params, "type")
             repo == Get(params, "repo")
         IN  IF ~Truthy(warm_type) \/ ~Truthy(repo)
             THEN Respond(ErrorPayload(req_id,
                                       <<"warmup requires 'type' and 'repo'">>))
             ELSE IF IsStr(warm_type, "parakeet")
             THEN Loader(ParakeetKey(repo),
                         Locals("warmup", req_id, ParakeetKey(repo), None,
                                None, None),
                         broken)
             ELSE IF IsStr(warm_type, "mlx") \/ IsStr(warm_type, "correction")
             THEN Loader(CorrectionKey(repo),
                         Locals("warmup", req_id, CorrectionKey(repo), None,
                                None, None),
                         broken)
             ELSE Respond(ErrorPayload(req_id,
                                       <<"Unknown warmup type: ", Str(warm_type)>>))

\* mutant of HandleRequest: params that are not an object are refused before
\* the method is looked at
HandleRequestParamsChecked(request, broken) ==
    IF request.t # "dict"
    THEN [kind |-> "crash"]
    ELSE LET req_id == Get(request, "id")
             method == Get(request, "method")
             params == Or(Get(request, "params"), PyDict(<<>>))
         IN  IF params.t # "dict"
             THEN Respond(ErrorPayload(req_id, NoGetMessage(params)))
             ELSE IF IsStr(method, "ping")
             THEN Respond(ResultPayload(req_id, [pong |-> TRUE]))
             ELSE IF IsStr(method, "transcribe")
             THEN HandleTranscribe(req_id, params, broken)
             ELSE IF IsStr(method, "correct")
             THEN HandleCorrect(req_id, params, broken)
             ELSE IF IsStr(method, "warmup")
             THEN HandleWarmup(req_id, params, broken)
             ELSE Respond(ErrorPayload(req_id,
                                       <<"Unknown method: ", Str(method)>>))

HandleRequest(request, broken) ==
    IF request.t # "dict"
    THEN [kind |-> "crash"]    \* request.get raises before the try block
    ELSE LET req_id == Get(request, "id")
             method == Get(request, "method")
             params == Or(Get(request, "params"), PyDict(<<>>))
         IN  IF IsStr(method, "ping")
             THEN Respond(ResultPayload(req_id, [pong |-> TRUE]))
             ELSE IF IsStr(method, "transcribe")
             THEN HandleTranscribe(req_id, params, broken)
             ELSE IF IsStr(method, "correct")
             THEN HandleCorrect(req_id, params, broken)
             ELSE IF IsStr(method, "warmup")
             THEN HandleWarmup(req_id, params, broken)
             ELSE Respond(ErrorPayload(req_id,
                                       <<"Unknown method: ", Str(method)>>))

(***************************************************************************)
(* parakeet.py: extraction of the text from what model.generate returned.  *)
(***************************************************************************)
\* an object with the given attributes
PyObject(attrs) == [t |-> "object", v |-> attrs]

HasAttr(x, name) == x.t = "object" /\ name \in DOMAIN x.v

\* the outcome of extract_parakeet_text: a text, or AttributeError
Extracted(text) == [ok |-> TRUE, text |-> text]
ExtractFailed == [ok |-> FALSE, text |-> None]

\* mutant of extract_parakeet_text: texts is looked at before text
ExtractTextsFirst(result) ==
    IF result.t = "list" /\ Truthy(result)
    THEN LET first_item == result.v[1]
         IN  IF HasAttr(first_item, "text")
             THEN Extracted(Or(first_item.v["text"], PyStr("")))
             ELSE Extracted(PyStr(Str(first_item)))
    ELSE IF HasAttr(result, "texts") /\ Truthy(result.v["texts"])
    THEN Extracted(Or(result.v["texts"].v[1], PyStr("")))
    ELSE IF HasAttr(result, "text")
    THEN Extracted(Or(result.v["text"], PyStr("")))
    ELSE IF result.t = "dict" /\ "texts" \in DOMAIN result.v
            /\ Truthy(Get(result, "texts"))
    THEN Extracted(Or(result.v["texts"].v[1], PyStr("")))
    ELSE IF result.t = "dict" /\ "text" \in DOMAIN result.v
    THEN Extracted(Or(Get(result, "text"), PyStr("")))
    ELSE ExtractFailed

\* mutant of extract_parakeet_text: the values are returned as they are,
\* without `or ""`
ExtractNoDefault(result) ==
    IF result.t = "list" /\ Truthy(result)
    THEN LET first_item == result.v[1]
         IN  IF HasAttr(first_item, "text")
             THEN Extracted(first_item.v["text"])
             ELSE Extracted(PyStr(Str(first_item)))
    ELSE IF HasAttr(result, "text")
    THEN Extracted(result.v["text"])
    ELSE IF HasAttr(result, "texts") /\ Truthy(result.v["texts"])
    THEN Extracted(result.v["texts"].v[1])
    ELSE IF result.t = "dict" /\ "text" \in DOMAIN result.v
    THEN Extracted(Get(result, "text"))
    ELSE IF result.t = "dict" /\ "texts" \in DOMAIN result.v
            /\ Truthy(Get(result, "texts"))
    THEN Extracted(result.v["texts"].v[1])
    ELSE ExtractFailed

extract_parakeet_text(result) ==
    IF result.t = "list" /\ Truthy(result)
    THEN LET first_item == result.v[1]
         IN  IF HasAttr(first_item, "text")
             THEN Extracted(Or(first_item.v["text"], PyStr("")))
             ELSE Extracted(PyStr(Str(first_item)))
    ELSE IF HasAttr(result, "text")
    THEN Extracted(Or(result.v["text"], PyStr("")))
    ELSE IF HasAttr(result, "texts") /\ Truthy(result.v["texts"])
    THEN Extracted(Or(result.v["texts"].v[1], PyStr("")))
    ELSE IF result.t = "dict" /\ "text" \in DOMAIN result.v
    THEN Extracted(Or(Get(result, "text"), PyStr("")))
    ELSE IF result.t = "dict" /\ "texts" \in DOMAIN result.v
            /\ Truthy(Get(result, "texts"))
    THEN Extracted(Or(result.v["texts"].v[1], PyStr("")))
    ELSE ExtractFailed

\* what model.generate returns in the daemon model
GenerateResults ==
    {PyList(<<PyObject([text |-> PyStr("hello")])>>),
     PyObject([text |-> None]),
     PyObject([texts |-> PyList(<<PyStr("hello")>>)]),
     PyDict([texts |-> PyList(<<>>)]),
     PyList(<<>>)}

\* json.dumps accepts the value
Serializable(v) == v.t \in {"None", "bool", "int", "str", "list", "dict"}

\* transcribe after load_parakeet_model, given what the libraries did:
\* raised is TRUE when np.fromfile, mx.array, get_logmel or model.generate
\* raised, result is what model.generate returned otherwise
TranscribePayload(req_id, raised, result) ==
    IF raised
    THEN ErrorPayload(req_id, <<"<exc>">>)
    ELSE LET x == extract_parakeet_text(result)
         IN  IF ~x.ok
             THEN ErrorPayload(req_id,
                               <<"Cannot extract text from result: ", "<repr>">>)
             ELSE IF ~Serializable(x.text)
             THEN ErrorPayload(req_id, <<"Object of type ", x.text.t,
                                         " is not JSON serializable">>)
             ELSE ResultPayload(req_id, [success |-> TRUE, text |-> x.text])

(***************************************************************************)
(* correction.py: the str methods and regular expressions of correct(),    *)
(* on sequences of characters.                                             *)
(***************************************************************************)
Whitespace == {" ", "\n", "\t"}

RECURSIVE LStrip(_, _)
\* s.lstrip(chars): every leading character that is in chars removed
LStrip(s, chars) ==
    IF s # <<>> /\ Head(s) \in chars THEN LStrip(Tail(s), chars) ELSE s

RECURSIVE RStrip(_, _)
\* s.rstrip(chars)
RStrip(s, chars) ==
    IF s # <<>> /\ s[Len(s)] \in chars
    THEN RStrip(SubSeq(s, 1, Len(s) - 1), chars)
    ELSE s

\* s.strip() and s.strip(chars)
StripChars(s, chars) == RStrip(LStrip(s, chars), chars)
Strip(s) == StripChars(s, Whitespace)

\* mutant of WordCount: len(s.split(" ")), one more than the number of spaces
WordCountBySpace(s) ==
    Cardinality({i \in 1..Len(s) : s[i] = " "}) + 1

\* len(s.split()): the number of maximal runs of non-whitespace characters
WordCount(s) ==
    Cardinality({i \in 1..Len(s) :
                    /\ s[i] \notin Whitespace
                    /\ (i = 1 \/ s[i - 1] \in Whitespace)})

\* mutant of StartsWith: only the lengths are compared
StartsWithLength(s, p) == Len(p) <= Len(s)

\* s.startswith(p)
StartsWith(s, p) == Len(p) <= Len(s) /\ SubSeq(s, 1, Len(p)) = p

\* pat occurs in s at position i
MatchAt(s, i, pat) ==
    /\ i >= 1
    /\ i + Len(pat) - 1 <= Len(s)
    /\ SubSeq(s, i, i + Len(pat) - 1) = pat

\* the first position >= i where pat occurs in s, 0 when there is none
Find(s, i, pat) ==
    LET hits == {k \in i..Len(s) : MatchAt(s, k, pat)}
    IN  IF hits = {} THEN 0 ELSE CHOOSE k \in hits : \A j \in hits : k <= j

ThinkOpen == <<"<", "t", "h", "i", "n", "k", ">">>
ThinkClose == <<"<", "/", "t", "h", "i", "n", "k", ">">>

RECURSIVE StripCompleteThink(_)
\* re.sub(r"<think>.*?</think>", "", s, flags=re.DOTALL): each leftmost
\* shortest match removed, the scan resuming after the match
StripCompleteThink(s) ==
    LET o == Find(s, 1, ThinkOpen)
        c == IF o = 0 THEN 0 ELSE Find(s, o + Len(ThinkOpen), ThinkClose)
    IN  IF o = 0 \/ c = 0
        THEN s
        ELSE SubSeq(s, 1, o - 1)
             \o StripCompleteThink(SubSeq(s, c + Len(ThinkClose), Len(s)))

RECURSIVE StripOpenThinkToLineEnd(_)
\* mutant of StripOpenThink: without re.DOTALL, "." stops at a line feed
StripOpenThinkToLineEnd(s) ==
    LET o == Find(s, 1, ThinkOpen)
        n == IF o = 0 THEN 0 ELSE Find(s, o + Len(ThinkOpen), <<"\n">>)
    IN  IF o = 0 THEN s
        ELSE IF n = 0 THEN SubSeq(s, 1, o - 1)
        ELSE SubSeq(s, 1, o - 1)
             \o StripOpenThinkToLineEnd(SubSeq(s, n, Len(s)))

\* mutant of StripOpenThink: the text is cut at the last <think>, not at
\* the first
StripOpenThinkFromLast(s) ==
    LET hits == {k \in 1..Len(s) : MatchAt(s, k, ThinkOpen)}
    IN  IF hits = {} THEN s
        ELSE SubSeq(s, 1, (CHOOSE k \in hits : \A j \in hits : k >= j) - 1)

\* re.sub(r"<think>.*", "", s, flags=re.DOTALL)
StripOpenThink(s) ==
    LET o == Find(s, 1, ThinkOpen)
    IN  IF o = 0 THEN s ELSE SubSeq(s, 1, o - 1)

\* mutant of TrimQuotes: the whitespace the quotes covered is left in place
TrimQuotesNoFinalStrip(s) == StripChars(StripChars(Strip(s), {"\""}), {"'"})

\* cleaned.strip().strip('"').strip("'").strip()
TrimQuotes(s) == Strip(StripChars(StripChars(Strip(s), {"\""}), {"'"}))

\* the prefix strip, the two re.sub and the trim that follow a generation
Cleanup(generated, chat_prompt) ==
    LET g == IF StartsWith(generated, chat_prompt)
             THEN SubSeq(generated, Len(chat_prompt) + 1, Len(generated))
             ELSE generated
    IN  TrimQuotes(StripOpenThink(StripCompleteThink(g)))

\* max(128, min(4096, int(len(text.split()) * 4)))
Min(a, b) == IF a <= b THEN a ELSE b
Max(a, b) == IF a >= b THEN a ELSE b
MaxTokens(text) == Max(128, Min(4096, WordCount(text) * 4))

DEFAULT_CORRECTION_PROMPT == <<"Clean up this speech transcription: ...">>

\* tokenizer.apply_chat_template(messages, tokenize=False,
\* add_generation_prompt=True[, enable_thinking=False]) when it returns
ChatTemplate(system_prompt, text, enable_thinking) ==
    <<"<|system|>">> \o system_prompt \o <<"<|user|>">> \o text
    \o <<"<|assistant|>">>
    \o (IF enable_thinking THEN <<>> ELSE ThinkOpen \o ThinkClose)

\* mutant of FallbackPrompt: a line feed, not a blank line, in between
FallbackPromptOneLine(system_prompt, text) == system_prompt \o <<"\n">> \o text

\* the prompt _safe_chat_template falls back to
FallbackPrompt(system_prompt, text) == system_prompt \o <<"\n", "\n">> \o text

\* prompt.strip() if prompt and prompt.strip() else DEFAULT_CORRECTION_PROMPT
SystemPrompt(prompt) ==
    IF Truthy(prompt) /\ Strip(prompt.c) # <<>>
    THEN Strip(prompt.c)
    ELSE DEFAULT_CORRECTION_PROMPT

(***************************************************************************)
(* Actions.                                                                *)
(***************************************************************************)
\* _respond(payload), the first for the line just read, number n
WriteFirst(payload, n) ==
    /\ out' = <<payload>>
    /\ outLine' = Append(outLine, n)

\* nothing is written while the line just read is dispatched
WriteNothing ==
    /\ out' = <<>>
    /\ UNCHANGED outLine

\* the number of the line being processed, outside the read actions
CurLine == Len(nonblank)

\* _respond(payload) later in the handling of the line read last
Write(payload) ==
    /\ out' = Append(out, payload)
    /\ outLine' = Append(outLine, CurLine)

\* previous = {k: os.environ.get(k) for k in HF_ENV_KEYS}
SavedEnv(e) == [k \in HF_ENV_KEYS |-> e[k]]

\* the handle the n-th underlying load of key returns
Handle(key, n) == [key |-> key, n |-> n]

\* mutant of CacheStore: the cache keeps only the model loaded last
CacheStoreOnlyLast(c, key, handle) == (key :> handle)

\* mutant of CacheStore: the model is returned without being stored
CacheStoreNothing(c, key, handle) == c

\* MODEL_CACHE[cache_key] = model
CacheStore(c, key, handle) == (key :> handle) @@ c

\* main: a blank line is skipped
ReadBlank ==
    /\ pc = "read"
    /\ Len(nonblank) < MaxLines
    /\ \E l \in Lines :
        /\ l.blank
        /\ line' = l
        /\ nonblank' = Append(nonblank, FALSE)
    /\ WriteNothing
    /\ reqLoads' = 0
    /\ UNCHANGED <<pc, cur, cache, env, env0, loadCalls, loadReturns>>

\* main: json.loads raises JSONDecodeError
ReadInvalid ==
    /\ pc = "read"
    /\ Len(nonblank) < MaxLines
    /\ \E l \in Lines :
        /\ ~l.blank
        /\ ~l.valid
        /\ line' = l
        /\ nonblank' = Append(nonblank, TRUE)
        /\ WriteFirst(InvalidJsonPayload, Len(nonblank) + 1)
    /\ reqLoads' = 0
    /\ UNCHANGED <<pc, cur, cache, env, env0, loadCalls, loadReturns>>

\* main: json.loads returns and _handle_request runs, up to the response or
\* up to the call of the underlying load
ReadRequest ==
    /\ pc = "read"
    /\ Len(nonblank) < MaxLines
    /\ \E l \in Lines : \E broken \in BrokenChoices(l.value) :
        /\ ~l.blank
        /\ l.valid
        /\ line' = l
        /\ nonblank' = Append(nonblank, TRUE)
        /\ LET h == HandleRequest(l.value, broken)
               n == Len(nonblank) + 1
           IN  CASE h.kind = "crash" ->
                      /\ pc' = "crashed"
                      /\ WriteNothing
                      /\ reqLoads' = 0
                      /\ UNCHANGED <<cur, cache, env, loadCalls>>
                 [] h.kind = "respond" ->
                      /\ WriteFirst(h.payload, n)
                      /\ reqLoads' = 0
                      /\ UNCHANGED <<pc, cur, cache, env, loadCalls>>
                 [] h.kind = "hit" /\ h.locals.method = "warmup" ->
                      /\ WriteFirst(ResultPayload(h.locals.req_id,
                                                  [success |-> TRUE]), n)
                      /\ reqLoads' = 0
                      /\ UNCHANGED <<pc, cur, cache, env, loadCalls>>
                 [] h.kind = "hit" /\ h.locals.method # "warmup" ->
                      /\ pc' = IF h.locals.method = "transcribe"
                               THEN "infer" ELSE "correct"
                      /\ cur' = h.locals
                      /\ WriteNothing
                      /\ reqLoads' = 0
                      /\ UNCHANGED <<cache, env, loadCalls>>
                 [] h.kind = "load" ->
                      /\ pc' = "loading"
                      /\ cur' = [h.locals EXCEPT !.previous = SavedEnv(env)]
                      /\ env' = OfflineEnv(env)
                      /\ loadCalls' = [loadCalls EXCEPT ![h.locals.key] = @ + 1]
                      /\ reqLoads' = 1
                      /\ WriteNothing
                      /\ UNCHANGED cache
    /\ UNCHANGED <<env0, loadReturns>>

\* from_pretrained(repo) / mlx_lm.load(repo) returns: the guard restores the
\* environment, the model is cached, and the request goes on (warmup
\* answers, transcribe and correct go on to their library calls)
LoadReturns ==
    /\ pc = "loading"
    /\ env' = RestoredEnv(env, cur.previous)
    /\ cache' = CacheStore(cache, cur.key, Handle(cur.key, loadCalls[cur.key]))
    /\ IF cur.method = "warmup"
       THEN /\ Write(ResultPayload(cur.req_id, [success |-> TRUE]))
            /\ pc' = "read"
            /\ cur' = Idle
       ELSE /\ pc' = IF cur.method = "transcribe" THEN "infer" ELSE "correct"
            /\ cur' = [cur EXCEPT !.previous = None]
            /\ UNCHANGED <<out, outLine>>
    /\ loadReturns' = [loadReturns EXCEPT ![cur.key] = @ + 1]
    /\ UNCHANGED <<line, nonblank, env0, loadCalls, reqLoads>>

\* mutant of LoadRaises: the failed load leaves an entry in the cache
LoadRaisesCaching ==
    /\ pc = "loading"
    /\ env' = RestoredEnv(env, cur.previous)
    /\ cache' = CacheStore(cache, cur.key, None)
    /\ Write(ErrorPayload(cur.req_id, OfflineMessage(cur.key)))
    /\ pc' = "read"
    /\ cur' = Idle
    /\ UNCHANGED <<line, nonblank, env0, loadCalls, loadReturns, reqLoads>>

\* mutant of LoadRaises: the failed load is not reported, the daemon goes on
\* to the next line
LoadRaisesUnanswered ==
    /\ pc = "loading"
    /\ env' = RestoredEnv(env, cur.previous)
    /\ pc' = "read"
    /\ cur' = Idle
    /\ UNCHANGED <<line, nonblank, out, outLine, cache, env0, loadCalls,
                   loadReturns, reqLoads>>

\* from_pretrained(repo) / mlx_lm.load(repo) raises
LoadRaises ==
    /\ pc = "loading"
    /\ env' = RestoredEnv(env, cur.previous)
    /\ Write(ErrorPayload(cur.req_id, OfflineMessage(cur.key)))
    /\ pc' = "read"
    /\ cur' = Idle
    /\ UNCHANGED <<line, nonblank, cache, env0, loadCalls, loadReturns, reqLoads>>

\* transcribe: np.fromfile .. model.generate and the extraction
Infer ==
    /\ pc = "infer"
    /\ \E o \in {[raised |-> TRUE, result |-> None]}
                \cup {[raised |-> FALSE, result |-> r] : r \in GenerateResults} :
        Write(TranscribePayload(cur.req_id, o.raised, o.result))
    /\ pc' = "read"
    /\ cur' = Idle
    /\ UNCHANGED <<line, nonblank, cache, env, env0, loadCalls, loadReturns,
                   reqLoads>>

\* main: end of input, return 0
Eof ==
    /\ pc = "read"
    /\ pc' = "exit"
    /\ UNCHANGED <<line, nonblank, out, outLine, cur, cache, env, env0,
                   loadCalls, loadReturns, reqLoads>>

\* what one call of mlx_lm.generate returns, but for an echo of the prompt
GenBodies ==
    {<<"h", "i">>,
     <<"\"", "h", "i", "\"">>,
     ThinkOpen \o <<"x">> \o ThinkClose \o <<"h", "i">>,
     ThinkOpen \o <<"x">>}

\* what one call of mlx_lm.generate does: raises TypeError, raises another
\* exception, or returns a text, which starts with one of echoes
Outcomes(echoes, bodies) ==
    {[kind |-> "TypeError"], [kind |-> "raise"]}
    \cup {[kind |-> "return", generated |-> e \o b] :
            e \in echoes, b \in bodies}

\* in the daemon model the library echoes the whole prompt or nothing
GenOutcomes(prompt) == Outcomes({<<>>, prompt}, GenBodies)

\* mutant of CorrectResult: an empty text is reported as a failure
CorrectResultEmptyFails(req_id, cleaned) ==
    ResultPayload(req_id, [success |-> cleaned # <<>>, text |-> PyText(cleaned)])

CorrectResult(req_id, cleaned) ==
    ResultPayload(req_id, [success |-> TRUE, text |-> PyText(cleaned)])

\* the library calls of correct(), as they are recorded in locals.events
TemplateEvent(enable_thinking, ok) ==
    [call |-> "apply_chat_template", enable_thinking |-> enable_thinking,
     ok |-> ok]
ImportEvent(ok) == [call |-> "import", ok |-> ok]
GenerateEvent(prompt, max_tokens, sampling, o) ==
    [call |-> "generate", prompt |-> prompt, max_tokens |-> max_tokens,
     sampling |-> sampling, outcome |-> o]

\* a step of correct() ends with correct() going on, or with the response
\* _handle_request writes for its return value or its exception
GoOn(locals, events) ==
    [kind |-> "again",
     locals |-> [locals EXCEPT !.events = @ \o events]]
Answer(locals, payload, events) ==
    [kind |-> "respond", payload |-> payload,
     locals |-> [locals EXCEPT !.events = @ \o events]]

\* correct(): from the return of load_correction_model to the first call
\* of mlx_lm.generate; template_ok and import_ok tell whether
\* apply_chat_template and the import of generate succeed
CorrectStep(locals, template_ok, import_ok) ==
    LET system_prompt == SystemPrompt(locals.prompt)
        rendered == TemplateEvent(TRUE, template_ok)
    IN  IF locals.text.t # "str"
        THEN \* text.split() raises AttributeError
             Answer(locals,
                    ErrorPayload(locals.req_id,
                        <<"'", locals.text.t, "' object has no attribute 'split'">>),
                    <<rendered>>)
        ELSE IF ~import_ok
        THEN Answer(locals,
                    ErrorPayload(locals.req_id,
                                 <<"mlx-lm import failed: ", "<exc>">>),
                    <<rendered, ImportEvent(FALSE)>>)
        ELSE GoOn([locals EXCEPT
                      !.chat_prompt =
                          IF template_ok
                          THEN ChatTemplate(system_prompt, locals.text.c, TRUE)
                          ELSE FallbackPrompt(system_prompt, locals.text.c),
                      !.max_tokens = MaxTokens(locals.text.c),
                      !.attempt = 1,
                      !.sampling = TRUE],
                  <<rendered, ImportEvent(TRUE)>>)

\* the prompt of the attempt under way
PromptInUse(locals) ==
    IF locals.attempt = 1
    THEN locals.chat_prompt
    ELSE locals.chat_prompt_no_think

\* mutant of FallsBack: any exception of the first call starts the second
FallsBackOnAny(locals, o) == o.kind # "return" /\ locals.sampling

\* _safe_generate: except TypeError around the call with temp and top_p
FallsBack(locals, o) == o.kind = "TypeError" /\ locals.sampling

\* mutant of Raised: the retry's exception reaches _handle_request too
RaisedAlwaysPropagates(locals) == ErrorPayload(locals.req_id, <<"<exc>">>)

\* an exception leaves _safe_generate: that of the first attempt goes to
\* _handle_request, that of the retry is swallowed (except Exception: pass)
Raised(locals) ==
    IF locals.attempt = 1
    THEN ErrorPayload(locals.req_id, <<"<exc>">>)
    ELSE CorrectResult(locals.req_id, locals.cleaned)

\* mutant of NeedsRetry: the retry is retried once when it gives nothing
NeedsRetryTwice(locals, cleaned) == locals.attempt <= 2 /\ cleaned = <<>>

\* mutant of NeedsRetry: an empty result is returned as it is
NeedsRetryNever(locals, cleaned) == FALSE

\* if not cleaned: after the first attempt's cleanup
NeedsRetry(locals, cleaned) == locals.attempt = 1 /\ cleaned = <<>>

\* one call of mlx_lm.generate with outcome o, and what _safe_generate and
\* correct() do with it, up to the next call of mlx_lm.generate;
\* template_ok and import_ok tell whether the retry's apply_chat_template
\* and its import of generate succeed
GenerateStep(locals, o, template_ok, import_ok) ==
    LET prompt == PromptInUse(locals)
        called == GenerateEvent(prompt, locals.max_tokens, locals.sampling, o)
    IN  IF FallsBack(locals, o)
        THEN \* the same call again, without temp and top_p
             GoOn([locals EXCEPT !.sampling = FALSE], <<called>>)
        ELSE IF o.kind # "return"
        THEN Answer(locals, Raised(locals), <<called>>)
        ELSE LET cleaned == Cleanup(o.generated, prompt)
                 done == [locals EXCEPT !.cleaned = cleaned]
             IN  IF ~NeedsRetry(locals, cleaned)
                 THEN Answer(done, CorrectResult(locals.req_id, cleaned),
                             <<called>>)
                 ELSE \* retry with thinking disabled
                      IF ~template_ok
                      THEN Answer(done, CorrectResult(locals.req_id, cleaned),
                                  <<called, TemplateEvent(FALSE, FALSE)>>)
                      ELSE IF ~import_ok
                      THEN Answer(done, CorrectResult(locals.req_id, cleaned),
                                  <<called, TemplateEvent(FALSE, TRUE),
                                    ImportEvent(FALSE)>>)
                      ELSE GoOn([done EXCEPT
                                    !.chat_prompt_no_think =
                                        ChatTemplate(SystemPrompt(locals.prompt),
                                                     locals.text.c, FALSE),
                                    !.attempt = @ + 1,
                                    !.sampling = TRUE],
                                <<called, TemplateEvent(FALSE, TRUE),
                                  ImportEvent(TRUE)>>)

\* whether the retry's template and import are reached after outcome o
RetryChoices(locals, o) ==
    IF o.kind = "return" /\ locals.attempt = 1 THEN BOOLEAN ELSE {TRUE}

\* correct() up to its first call of mlx_lm.generate; the daemon keeps no
\* record of the library calls (locals.events stays empty)
CorrectPrepare ==
    /\ pc = "correct"
    /\ \E template_ok \in BOOLEAN, import_ok \in BOOLEAN :
        LET r == CorrectStep(cur, template_ok, import_ok)
        IN  IF r.kind = "again"
            THEN /\ pc' = "generate"
                 /\ cur' = [r.locals EXCEPT !.events = <<>>]
                 /\ UNCHANGED <<out, outLine>>
            ELSE /\ Write(r.payload)
                 /\ pc' = "read"
                 /\ cur' = Idle
    /\ UNCHANGED <<line, nonblank, cache, env, env0, loadCalls, loadReturns,
                   reqLoads>>

\* one call of mlx_lm.generate and what correct() does with its outcome
Generate ==
    /\ pc = "generate"
    /\ \E o \in GenOutcomes(PromptInUse(cur)) :
       \E template_ok \in RetryChoices(cur, o), import_ok \in RetryChoices(cur, o) :
        LET r == GenerateStep(cur, o, template_ok, import_ok)
        IN  IF r.kind = "again"
            THEN /\ cur' = [r.locals EXCEPT !.events = <<>>]
                 /\ UNCHANGED <<pc, out, outLine>>
            ELSE /\ Write(r.payload)
                 /\ pc' = "read"
                 /\ cur' = Idle
    /\ UNCHANGED <<line, nonblank, cache, env, env0, loadCalls, loadReturns,
                   reqLoads>>

Next ==
    \/ ReadBlank
    \/ ReadInvalid
    \/ ReadRequest
    \/ LoadReturns
    \/ LoadRaises
    \/ Infer
    \/ CorrectPrepare
    \/ Generate
    \/ Eof

Spec == Init /\ [][Next]_vars

\* the daemon is one thread that blocks only in its reads and its library
\* calls: when the input ends and every library call returns or raises, a
\* step that can be taken is taken
FairSpec == Spec /\ WF_vars(Next)

(***************************************************************************)
(* The cleanup of correct() on its own (correction.py lines 86-89, the     *)
(* same three statements as mlx_semantic_correct.py lines 127-130): the    *)
(* generated text is drawn from the texts put together from a few pieces,  *)
(* and the three statements are applied to it one after the other.         *)
(***************************************************************************)
\* the pieces generated texts are put together from: the two tags, a
\* letter, a line feed and the two quote characters
Pieces ==
    {ThinkOpen, ThinkClose, <<"a">>, <<"\n">>, <<"\"">>, <<"'">>}

GeneratedTexts == UNION {[1..n -> Pieces] : n \in 0..MaxPieces}

RECURSIVE Flatten(_)
\* the text a sequence of pieces spells
Flatten(ps) == IF ps = <<>> THEN <<>> ELSE Head(ps) \o Flatten(Tail(ps))

CleanupLocals(pieces) ==
    [method |-> "cleanup", pieces |-> pieces, generated |-> Flatten(pieces),
     complete_removed |-> <<>>, open_removed |-> <<>>, cleaned |-> <<>>,
     again |-> <<>>]

CleanupInit ==
    /\ pc = "generated"
    /\ \E ps \in GeneratedTexts : cur = CleanupLocals(ps)
    /\ line = NoLine
    /\ nonblank = <<>>
    /\ out = <<>>
    /\ outLine = <<>>
    /\ cache = <<>>
    /\ env0 = [k \in HF_ENV_KEYS |-> None]
    /\ env = env0
    /\ loadCalls = [k \in CacheKeys |-> 0]
    /\ loadReturns = [k \in CacheKeys |-> 0]
    /\ reqLoads = 0

\* cleaned = re.sub(r"<think>.*?</think>", "", generated, flags=re.DOTALL)
SubCompleteThink ==
    /\ pc = "generated"
    /\ pc' = "complete_removed"
    /\ cur' = [cur EXCEPT !.complete_removed = StripCompleteThink(cur.generated)]
    /\ UNCHANGED <<line, nonblank, out, outLine, cache, env, env0, loadCalls,
                   loadReturns, reqLoads>>

\* cleaned = re.sub(r"<think>.*", "", cleaned, flags=re.DOTALL)
SubOpenThink ==
    /\ pc = "complete_removed"
    /\ pc' = "open_removed"
    /\ cur' = [cur EXCEPT !.open_removed = StripOpenThink(cur.complete_removed)]
    /\ UNCHANGED <<line, nonblank, out, outLine, cache, env, env0, loadCalls,
                   loadReturns, reqLoads>>

\* cleaned = cleaned.strip().strip('"').strip("'").strip()
Trim ==
    /\ pc = "open_removed"
    /\ pc' = "trimmed"
    /\ cur' = [cur EXCEPT !.cleaned = TrimQuotes(cur.open_removed)]
    /\ UNCHANGED <<line, nonblank, out, outLine, cache, env, env0, loadCalls,
                   loadReturns, reqLoads>>

\* the three statements once more, on the cleaned text
CleanAgain ==
    /\ pc = "trimmed"
    /\ pc' = "cleaned_again"
    /\ cur' = [cur EXCEPT !.again =
                  TrimQuotes(StripOpenThink(StripCompleteThink(cur.cleaned)))]
    /\ UNCHANGED <<line, nonblank, out, outLine, cache, env, env0, loadCalls,
                   loadReturns, reqLoads>>

CleanupNext ==
    \/ SubCompleteThink
    \/ SubOpenThink
    \/ Trim
    \/ CleanAgain

CleanupSpec == CleanupInit /\ [][CleanupNext]_vars

(***************************************************************************)
(* The token budget of correct() on its own (correction.py line 78, the    *)
(* same expression as mlx_semantic_correct.py line 101): the text is drawn *)
(* from texts of a known number of words, and the budget is computed.      *)
(***************************************************************************)
\* n words "a": one space between them, or a tab before and a line feed
\* after each
WordsText(n, spaced) ==
    IF spaced
    THEN [i \in 1..(IF n = 0 THEN 0 ELSE 2 * n - 1) |->
            IF i % 2 = 1 THEN "a" ELSE " "]
    ELSE [i \in 1..(3 * n) |->
            IF i % 3 = 1 THEN "\t" ELSE IF i % 3 = 2 THEN "a" ELSE "\n"]

BudgetLocals(n, spaced) ==
    [method |-> "budget", words |-> n, text |-> PyText(WordsText(n, spaced)),
     max_tokens |-> 0]

BudgetInit ==
    /\ pc = "text"
    /\ \E n \in 0..MaxWords, spaced \in BOOLEAN : cur = BudgetLocals(n, spaced)
    /\ line = NoLine
    /\ nonblank = <<>>
    /\ out = <<>>
    /\ outLine = <<>>
    /\ cache = <<>>
    /\ env0 = [k \in HF_ENV_KEYS |-> None]
    /\ env = env0
    /\ loadCalls = [k \in CacheKeys |-> 0]
    /\ loadReturns = [k \in CacheKeys |-> 0]
    /\ reqLoads = 0

\* max_tokens = max(128, min(4096, int(len(text.split()) * 4)))
ComputeBudget ==
    /\ pc = "text"
    /\ pc' = "budgeted"
    /\ cur' = [cur EXCEPT !.max_tokens = MaxTokens(cur.text.c)]
    /\ UNCHANGED <<line, nonblank, out, outLine, cache, env, env0, loadCalls,
                   loadReturns, reqLoads>>

BudgetNext == ComputeBudget

BudgetSpec == BudgetInit /\ [][BudgetNext]_vars

(***************************************************************************)
(* The extraction of transcribe() on its own (parakeet.py lines 62-63 and  *)
(* extract_parakeet_text): what model.generate returned is drawn from the  *)
(* shapes below, and transcribe goes on from there to its response.        *)
(***************************************************************************)
\* the values a text field holds
TextValues == {None, PyStr(""), PyStr("hello")}

\* the fields text and texts of an object, or the keys of a mapping
FieldChoices ==
    {Dict({<<"text", t>>, <<"texts", ts>>}).v :
        t \in TextValues \cup {Absent},
        ts \in {Absent, PyList(<<>>), PyList(<<None>>), PyList(<<PyStr("")>>),
                 PyList(<<PyStr("first"), PyStr("second")>>)}}

\* the items of a list: objects with a text field, an object without, a str
ListItems ==
    {PyObject([text |-> t]) : t \in TextValues}
    \cup {PyObject(<<>>), PyStr("plain")}

ResultShapes ==
    {PyList(l) : l \in UNION {[1..n -> ListItems] : n \in 0..MaxItems}}
    \cup {PyObject(f) : f \in FieldChoices}
    \cup {PyDict(f) : f \in FieldChoices}
    \cup {None, PyInt(5), PyStr("hello")}

ExtractLocals(result) ==
    [method |-> "transcribe", req_id |-> PyInt(2), result |-> result]

ExtractInit ==
    /\ pc = "result"
    /\ \E r \in ResultShapes : cur = ExtractLocals(r)
    /\ line = NoLine
    /\ nonblank = <<>>
    /\ out = <<>>
    /\ outLine = <<>>
    /\ cache = <<>>
    /\ env0 = [k \in HF_ENV_KEYS |-> None]
    /\ env = env0
    /\ loadCalls = [k \in CacheKeys |-> 0]
    /\ loadReturns = [k \in CacheKeys |-> 0]
    /\ reqLoads = 0

\* text = extract_parakeet_text(result); return {"success": True, "text":
\* text}, and the response _handle_request writes for it
Extract ==
    /\ pc = "result"
    /\ pc' = "extracted"
    /\ out' = <<TranscribePayload(cur.req_id, FALSE, cur.result)>>
    /\ UNCHANGED <<line, nonblank, outLine, cur, cache, env, env0, loadCalls,
                   loadReturns, reqLoads>>

ExtractNext == Extract

ExtractSpec == ExtractInit /\ [][ExtractNext]_vars

(***************************************************************************)
(* Properties.                                                             *)
(***************************************************************************)
\* the numbers of the non-blank lines among those read, in reading order
NonBlankLineNumbers ==
    LET idx == {i \in 1..Len(nonblank) : nonblank[i]}
    IN  [j \in 1..Cardinality(idx) |->
            CHOOSE i \in idx : Cardinality({m \in idx : m <= i}) = j]

\* all but the last element
Front(s) == SubSeq(s, 1, Len(s) - 1)

\* the daemon is between lines or has stopped
Settled == pc \in {"read", "exit", "crashed"}

IsError(payload) == "error" \in DOMAIN payload
IsResult(payload) == "result" \in DOMAIN payload

\* C1: whenever the daemon is between lines or has stopped, standard output
\* holds exactly one response per non-blank line read, in the order of the
\* lines, and none for a blank line, whatever the non-blank lines hold; while
\* a line is being handled only its response is missing.
C1_OneResponsePerLine ==
    IF Settled
    THEN outLine = NonBlankLineNumbers
    ELSE outLine = Front(NonBlankLineNumbers)

\* C2: no exception raised while a line is processed leaves the dispatcher:
\* the daemon never stops with an exception.
C2_NoExceptionEscapes == pc # "crashed"

\* C3: every response written carries jsonrpc "2.0", an id, and exactly one
\* of result and error.
C3_ResponseShape ==
    \A i \in 1..Len(out) :
        /\ "jsonrpc" \in DOMAIN out[i]
        /\ out[i].jsonrpc = "2.0"
        /\ "id" \in DOMAIN out[i]
        /\ IsResult(out[i]) # IsError(out[i])

\* C3 witness: after an earlier response, a request that called the
\* underlying load has been answered with an error response.
C3_Witness ==
    /\ pc = "read"
    /\ Len(outLine) >= 2
    /\ Len(out) = 1
    /\ IsError(out[1])
    /\ reqLoads = 1

\* C4 as stated: over any sequence of requests the underlying load is invoked
\* at most once per cache key.
C4_AtMostOneLoadCall == \A k \in CacheKeys : loadCalls[k] <= 1

\* C4 as amended: per cache key the underlying load returns at most once, and
\* once it has returned it is not invoked again (the entry in the cache is the
\* handle of the last call made for the key); a key is in the cache only by a
\* load of its own, so two repos under one type take two loads.
C4_AtMostOneSuccessfulLoad ==
    \A k \in CacheKeys :
        /\ loadReturns[k] <= 1
        /\ loadReturns[k] = 1 =>
              /\ k \in DOMAIN cache
              /\ cache[k] = Handle(k, loadCalls[k])
        /\ k \in DOMAIN cache => loadReturns[k] = 1

WarmupLine(type, repo) ==
    Line(FALSE, TRUE,
         Req(PyInt(4), PyStr("warmup"),
             Dict({<<"type", PyStr(type)>>, <<"repo", PyStr(repo)>>})))

\* C4 witness: a second warmup of (parakeet, A) has been answered from the
\* cache, with no load call, and (parakeet, B) took a load of its own.
C4_Witness ==
    /\ pc = "read"
    /\ Len(nonblank) = 3
    /\ line = WarmupLine("parakeet", "A")
    /\ reqLoads = 0
    /\ out = <<ResultPayload(PyInt(4), [success |-> TRUE])>>
    /\ loadCalls[<<"parakeet", "A">>] = 1
    /\ loadCalls[<<"parakeet", "B">>] = 1
    /\ DOMAIN cache = {<<"parakeet", "A">>, <<"parakeet", "B">>}

\* C5: a key is in the cache exactly when a load for it has returned (a load
\* that raised stores nothing), an operation runs only with its key in the
\* cache, and the underlying load is only running for a key that is absent:
\* after a failed load the next request for the key loads again.
C5_FailedLoadNotCached ==
    /\ \A k \in CacheKeys : k \in DOMAIN cache <=> loadReturns[k] > 0
    /\ pc \in {"infer", "correct", "generate"} => cur.key \in DOMAIN cache
    /\ pc = "loading" => cur.key \notin DOMAIN cache

\* C5 witness: the underlying load is running a second time for a key whose
\* first load raised.
C5_Witness ==
    /\ pc = "loading"
    /\ loadCalls[cur.key] = 2
    /\ loadReturns[cur.key] = 0
    /\ cur.key \notin DOMAIN cache

\* C6: no step removes an entry of the cache or replaces its handle.
C6_CacheOnlyGrows ==
    [][\A k \in DOMAIN cache : k \in DOMAIN cache' /\ cache'[k] = cache[k]]_vars

\* C6 witness: with two entries in the cache, a later request has been served
\* from one of them without a load.
C6_Witness ==
    /\ pc = "infer"
    /\ Cardinality(DOMAIN cache) = 2
    /\ reqLoads = 0
    /\ cache[cur.key] = Handle(cur.key, 1)

\* C7: outside the underlying load the two offline flags hold their values
\* of daemon start (the same value if set, unset if unset), after loads that
\* returned and after loads that raised; during the load the guard holds
\* those values for the restoration.
C7_EnvRestored ==
    /\ pc # "loading" => env = env0
    /\ pc = "loading" => cur.previous = env0

\* C7 witness: between requests, after a load that raised and a load that
\* returned, in a daemon started with one flag set to "0" and one unset.
C7_Witness ==
    /\ pc = "read"
    /\ env0 = [HF_HUB_OFFLINE |-> PyStr("0"), TRANSFORMERS_OFFLINE |-> None]
    /\ \E k \in CacheKeys : loadCalls[k] = 2 /\ loadReturns[k] = 1
    /\ reqLoads = 1

OfflineMessages ==
    {OfflineMessage(<<kind, "A">>) : kind \in {"parakeet", "mlx"}}

\* C8: while the underlying load runs both offline flags are "1"; a request
\* makes at most one call of it; and when that call raises, the next thing
\* the daemon does is to answer the request with the error that the model is
\* not available offline, without another load call.
C8_OfflineLoadOnly ==
    /\ [](pc = "loading" => \A k \in HF_ENV_KEYS : env[k] = PyStr("1"))
    /\ [](reqLoads <= 1)
    /\ [][(pc = "loading" /\ loadReturns' = loadReturns) =>
            /\ pc' = "read"
            /\ loadCalls' = loadCalls
            /\ Len(out') = 1
            /\ IsError(out'[1])
            /\ out'[1].error.message \in OfflineMessages
            /\ outLine' = Append(outLine, Len(nonblank))]_vars

\* C8 witness: a request whose offline load raised has been answered with
\* the not-available-offline error.
C8_Witness ==
    /\ pc = "read"
    /\ reqLoads = 1
    /\ Len(out) = 1
    /\ IsError(out[1])
    /\ out[1].error.message \in OfflineMessages
    /\ \A k \in CacheKeys : loadCalls[k] > 0 => k \notin DOMAIN cache

\* C9: a non-blank line json.loads rejects gets exactly one response, an
\* error with id null and a message beginning "Invalid JSON"; the cache, the
\* offline flags and the load counts are unchanged, and the daemon is ready
\* for the next line.
C9_InvalidJson ==
    [][(nonblank' # nonblank /\ ~line'.blank /\ ~line'.valid) =>
        /\ Len(out') = 1
        /\ IsError(out'[1])
        /\ ~IsResult(out'[1])
        /\ out'[1].id = None
        /\ out'[1].error.message[1] = "Invalid JSON: "
        /\ outLine' = Append(outLine, Len(nonblank'))
        /\ pc' = "read"
        /\ cache' = cache
        /\ env' = env
        /\ loadCalls' = loadCalls
        /\ cur' = cur]_vars

\* C9 witness: an unparseable line has been answered in a daemon whose cache
\* holds a model.
C9_Witness ==
    /\ pc = "read"
    /\ ~line.blank
    /\ ~line.valid
    /\ out = <<InvalidJsonPayload>>
    /\ DOMAIN cache # {}

\* C10: every response to a parsed request carries the request's id, None
\* when the request has none; the response to a line that did not parse
\* carries None.
C10_IdEchoed ==
    \A i \in 1..Len(out) :
        out[i].id = IF line.valid /\ line.value.t = "dict"
                    THEN Get(line.value, "id")
                    ELSE None

\* C10 witness: a correct request with id 3 whose generation raised has been
\* answered with an error response carrying id 3.
C10_Witness ==
    /\ pc = "read"
    /\ line.valid
    /\ Len(out) = 1
    /\ IsError(out[1])
    /\ out[1].id = PyInt(3)
    /\ out[1].error.message = <<"<exc>">>

\* the method and the params _handle_request takes from a request
MethodOf(request) == Get(request, "method")
ParamsOf(request) == Or(Get(request, "params"), PyDict(<<>>))

KnownMethods == {"ping", "transcribe", "correct", "warmup"}
WarmupTypes == {"parakeet", "mlx", "correction"}

\* a step that reads a line json.loads accepts as an object
ReadsRequest ==
    /\ nonblank' # nonblank
    /\ ~line'.blank
    /\ line'.valid
    /\ line'.value.t = "dict"

UnknownMethod(request) ==
    \A m \in KnownMethods : ~IsStr(MethodOf(request), m)

\* a known method whose params, an object, lack a required parameter
MissingParameter(request) ==
    LET method == MethodOf(request)
        params == ParamsOf(request)
        Has(k) == k \in DOMAIN params.v
    IN  /\ params.t = "dict"
        /\ \/ IsStr(method, "transcribe") /\ ~Has("pcm_path")
           \/ /\ IsStr(method, "correct")
              /\ ~Has("repo") \/ ~Has("text") \/ Get(params, "text") = None
           \/ /\ IsStr(method, "warmup")
              /\ \/ ~Has("type")
                 \/ ~Has("repo")
                 \/ \A t \in WarmupTypes : ~IsStr(Get(params, "type"), t)

\* C11: a request with an unknown method, or with a known method and a
\* required parameter missing, is answered at once with one error response;
\* no underlying load and no generation is called, and the cache, the
\* offline flags and the load counts are as before.
C11_MalformedNoSideEffects ==
    [][(ReadsRequest /\ (UnknownMethod(line'.value)
                         \/ MissingParameter(line'.value))) =>
        /\ Len(out') = 1
        /\ IsError(out'[1])
        /\ ~IsResult(out'[1])
        /\ outLine' = Append(outLine, Len(nonblank'))
        /\ pc' = "read"
        /\ cur' = cur
        /\ cache' = cache
        /\ env' = env
        /\ loadCalls' = loadCalls
        /\ loadReturns' = loadReturns
        /\ reqLoads' = 0]_vars

\* C11 witness: with a model in the cache, a warmup of an unknown type for a
\* repo that is not in the cache has been answered with an error response.
C11_Witness ==
    /\ pc = "read"
    /\ line = WarmupLine("gpu", "B")
    /\ Len(out) = 1
    /\ IsError(out[1])
    /\ reqLoads = 0
    /\ DOMAIN cache = {<<"mlx", "A">>}
    /\ loadCalls[<<"mlx", "B">>] = 0

TranscribeLine(repo, pcm_path) ==
    Line(FALSE, TRUE,
         Req(PyInt(2), PyStr("transcribe"),
             Dict({<<"repo", repo>>, <<"pcm_path", PyStr(pcm_path)>>})))

\* a transcribe request whose pcm_path names a file that does not exist
NamesMissingFile(request) ==
    LET params == ParamsOf(request)
        pcm_path == Get(params, "pcm_path")
    IN  /\ IsStr(MethodOf(request), "transcribe")
        /\ params.t = "dict"
        /\ pcm_path.t = "str"
        /\ Truthy(pcm_path)
        /\ ~FileExists(pcm_path.v)

\* C12: a transcribe request whose pcm_path names a file that does not exist
\* is answered at once with the error "PCM file not found: <path>", never
\* with a load error, whether or not the model is in the cache and whichever
\* imports would fail; no underlying load is called, and the daemon is left
\* between lines as it was, ready for the next request.
C12_FileNotFound ==
    [][(ReadsRequest /\ NamesMissingFile(line'.value)) =>
        /\ out' = <<ErrorPayload(Get(line'.value, "id"),
                                 <<"PCM file not found: ",
                                   Get(ParamsOf(line'.value), "pcm_path").v>>)>>
        /\ outLine' = Append(outLine, Len(nonblank'))
        /\ pc' = "read"
        /\ cur' = cur
        /\ cache' = cache
        /\ env' = env
        /\ loadCalls' = loadCalls
        /\ loadReturns' = loadReturns
        /\ reqLoads' = 0]_vars

\* C12 witness: the third line, a transcribe of /no/such/file for the default
\* repo, has been answered with file-not-found in a daemon that holds that
\* repo's model in the cache.
C12_Witness ==
    /\ pc = "read"
    /\ Len(nonblank) = 3
    /\ line = TranscribeLine(Absent, "/no/such/file")
    /\ out = <<ErrorPayload(PyInt(2),
                            <<"PCM file not found: ", "/no/such/file">>)>>
    /\ reqLoads = 0
    /\ DOMAIN cache = {<<"parakeet", DEFAULT_PARAKEET_REPO>>}

\* a correct request whose params are an object
CorrectRequest(request) ==
    IsStr(MethodOf(request), "correct") /\ ParamsOf(request).t = "dict"

\* after the step that read a correct request: correct() was called.  It
\* starts with load_correction_model, so either the underlying load is
\* running, or the model came from the cache, or the loader's import failed.
DispatchedToCorrect ==
    \/ /\ pc' \in {"loading", "correct"}
       /\ cur'.method = "correct"
       /\ out' = <<>>
    \/ /\ pc' = "read"
       /\ Len(out') = 1
       /\ IsError(out'[1])
       /\ out'[1].error.message = <<"mlx-lm import failed: ", "<exc>">>

\* C13: a correct request reaches correct() exactly when params.repo is
\* present and non-empty and params.text is present and not null, the empty
\* text included, and correct() gets that repo and text; otherwise the only
\* effect is an error response, which says that repo is required when repo
\* is missing (also when text is missing too) and that text is required
\* when only text is missing.
C13_CorrectDispatch ==
    [][(ReadsRequest /\ CorrectRequest(line'.value)) =>
        LET repo == Get(ParamsOf(line'.value), "repo")
            text == Get(ParamsOf(line'.value), "text")
        IN  /\ DispatchedToCorrect <=> (Truthy(repo) /\ text # None)
            /\ (DispatchedToCorrect /\ pc' # "read") =>
                  /\ cur'.key = <<"mlx", repo.v>>
                  /\ cur'.text = text
            /\ ~Truthy(repo) =>
                  /\ pc' = "read"
                  /\ out' = <<ErrorPayload(Get(line'.value, "id"),
                                           <<"repo is required for correct">>)>>
            /\ (Truthy(repo) /\ text = None) =>
                  /\ pc' = "read"
                  /\ out' = <<ErrorPayload(Get(line'.value, "id"),
                                           <<"text is required for correct">>)>>]_vars

\* C13 witness: a correct request with the empty text has reached correct(),
\* whose underlying load is running.
C13_Witness ==
    /\ pc = "loading"
    /\ cur.method = "correct"
    /\ cur.text = PyText(<<>>)
    /\ Get(ParamsOf(line.value), "text") = PyText(<<>>)

\* a transcribe request whose params are an object
TranscribeRequest(request) ==
    IsStr(MethodOf(request), "transcribe") /\ ParamsOf(request).t = "dict"

\* the errors transcribe() itself raises before load_parakeet_model
TranscribeOwnErrors ==
    {"PCM file not found: ", "Cannot read PCM file: ", "numpy import failed: ",
     "mlx.core import failed: ", "parakeet_mlx.audio import failed: ",
     "parakeet-mlx import failed: "}

\* C14: a transcribe request without pcm_path is answered at once with the
\* error that pcm_path is required, and no load is called; one with a
\* pcm_path and no repo reaches transcribe(), and whenever that goes as far
\* as the model, it is the model of the key (parakeet, DEFAULT_PARAKEET_REPO):
\* that key's load is the one called, and that key is in the cache when the
\* transcription runs.
C14_TranscribeDefaultRepo ==
    /\ [][(ReadsRequest /\ TranscribeRequest(line'.value)) =>
            LET params == ParamsOf(line'.value)
                defaultKey == <<"parakeet", DEFAULT_PARAKEET_REPO>>
            IN  /\ ~Truthy(Get(params, "pcm_path")) =>
                      /\ pc' = "read"
                      /\ out' = <<ErrorPayload(
                                     Get(line'.value, "id"),
                                     <<"pcm_path is required for transcribe">>)>>
                      /\ loadCalls' = loadCalls
                      /\ cache' = cache
                /\ (Truthy(Get(params, "pcm_path"))
                    /\ "repo" \notin DOMAIN params.v) =>
                      \/ /\ pc' = "read"
                         /\ Len(out') = 1
                         /\ IsError(out'[1])
                         /\ out'[1].error.message[1] \in TranscribeOwnErrors
                         /\ loadCalls' = loadCalls
                      \/ /\ pc' = "infer"
                         /\ cur'.key = defaultKey
                         /\ defaultKey \in DOMAIN cache
                         /\ loadCalls' = loadCalls
                      \/ /\ pc' = "loading"
                         /\ cur'.key = defaultKey
                         /\ loadCalls' =
                               [loadCalls EXCEPT ![defaultKey] = @ + 1]]_vars
    /\ [][(pc = "loading" /\ pc' = "infer") =>
            /\ cur'.key = cur.key
            /\ DOMAIN cache' = DOMAIN cache \cup {cur.key}]_vars

\* C14 witness: a transcribe request with a pcm_path and no repo is at its
\* transcription after its own load, and the cache holds exactly the key
\* (parakeet, DEFAULT_PARAKEET_REPO).
C14_Witness ==
    /\ pc = "infer"
    /\ line = TranscribeLine(Absent, "/audio.pcm")
    /\ reqLoads = 1
    /\ DOMAIN cache = {<<"parakeet", DEFAULT_PARAKEET_REPO>>}

\* the line read last is a warmup request whose params are an object
WarmupRead ==
    /\ ~line.blank
    /\ line.valid
    /\ line.value.t = "dict"
    /\ IsStr(MethodOf(line.value), "warmup")
    /\ ParamsOf(line.value).t = "dict"

\* the cache key of a warmup request with one of the three types and a repo
WarmupKey(request) ==
    LET type == Get(ParamsOf(request), "type")
        repo == Get(ParamsOf(request), "repo")
    IN  IF IsStr(type, "parakeet")
        THEN <<"parakeet", repo.v>>
        ELSE <<"mlx", repo.v>>

LoaderFailures ==
    {OfflineMessage(<<kind, "A">>) : kind \in {"parakeet", "mlx"}}
    \cup {LoaderImportMessage(<<kind, "A">>) : kind \in {"parakeet", "mlx"}}

\* C15: while a warmup request is handled nothing but the underlying load
\* runs (no transcription, no generation), and none at all for a type other
\* than parakeet, mlx and correction, which is answered with an error; a
\* warmup with one of the three types and a repo is answered with the
\* result {success: true} and then its key (parakeet for parakeet, mlx for
\* mlx and correction, with the repo) is in the cache, or, when the loader
\* failed, with the loader's error and its key not in the cache.
C15_Warmup ==
    WarmupRead =>
        LET params == ParamsOf(line.value)
            type == Get(params, "type")
            repo == Get(params, "repo")
            key == WarmupKey(line.value)
        IN  /\ pc \in {"read", "loading", "exit"}
            /\ pc = "loading" => cur.method = "warmup"
            /\ (pc # "loading" /\ Truthy(repo)
                /\ \E t \in WarmupTypes : IsStr(type, t)) =>
                  /\ Len(out) = 1
                  /\ \/ /\ out[1] = ResultPayload(Get(line.value, "id"),
                                                  [success |-> TRUE])
                        /\ key \in DOMAIN cache
                     \/ /\ IsError(out[1])
                        /\ out[1].error.message \in LoaderFailures
                        /\ key \notin DOMAIN cache
            /\ (\A t \in WarmupTypes : ~IsStr(type, t)) =>
                  /\ pc # "loading"
                  /\ reqLoads = 0
                  /\ Len(out) = 1
                  /\ IsError(out[1])

\* C15 witness: a warmup of type correction for repo B has been answered with
\* {success: true} after a load of its own, and (mlx, B) is in the cache.
C15_Witness ==
    /\ pc = "read"
    /\ line = WarmupLine("correction", "B")
    /\ out = <<ResultPayload(PyInt(4), [success |-> TRUE])>>
    /\ reqLoads = 1
    /\ <<"mlx", "B">> \in DOMAIN cache

\* C16: a ping request is answered at once with the result {pong: true} under
\* the request's id (None when it has none), whatever its params are (absent,
\* an object, or not an object); no load is called, and the cache, the
\* offline flags and the load counts are as before.
C16_Ping ==
    [][(ReadsRequest /\ IsStr(MethodOf(line'.value), "ping")) =>
        /\ out' = <<ResultPayload(Get(line'.value, "id"), [pong |-> TRUE])>>
        /\ outLine' = Append(outLine, Len(nonblank'))
        /\ pc' = "read"
        /\ cur' = cur
        /\ cache' = cache
        /\ env' = env
        /\ loadCalls' = loadCalls
        /\ loadReturns' = loadReturns
        /\ reqLoads' = 0]_vars

\* C16 witness: a ping whose params are the number 5 has been answered with
\* {pong: true} under its id 1, in a daemon whose cache holds a model.
C16_Witness ==
    /\ pc = "read"
    /\ line = Line(FALSE, TRUE, Req(PyInt(1), PyStr("ping"), PyInt(5)))
    /\ out = <<ResultPayload(PyInt(1), [pong |-> TRUE])>>
    /\ DOMAIN cache # {}

\* main has returned or an exception has left it
Stopped == pc \in {"exit", "crashed"}

\* C17: the daemon stops only by main returning 0 when the input has ended
\* (the step that stops it reads no line), and, the input being finite and
\* every library call returning or raising, it does stop that way, with
\* every non-blank line answered.
C17_TerminatesAtEndOfInput ==
    /\ [][(pc # pc' /\ pc' \in {"exit", "crashed"}) =>
            /\ pc = "read"
            /\ pc' = "exit"
            /\ nonblank' = nonblank]_vars
    /\ <>(pc = "exit" /\ outLine = NonBlankLineNumbers)

\* apart from the exception that leaves main: the daemon does stop
C17_Stops == <>Stopped
\* and when main returns, every non-blank line read has been answered
C17_ExitAnswered == pc = "exit" => outLine = NonBlankLineNumbers

\* C18: a line is read only when the daemon is between lines with no request
\* in hand, every non-blank line read before has its response on standard
\* output, and no offline guard is open (the flags hold their values of
\* daemon start); an offline-guarded load starts only in the handling of the
\* line just read, one per line at most, and is closed by the daemon's next
\* step: no two are ever open together.
C18_Sequential ==
    /\ [][nonblank' # nonblank =>
            /\ pc = "read"
            /\ cur = Idle
            /\ env = env0
            /\ outLine = NonBlankLineNumbers]_vars
    /\ [][pc' = "loading" =>
            /\ pc = "read"
            /\ nonblank' # nonblank
            /\ reqLoads' = 1]_vars
    /\ [][pc = "loading" => (pc' # "loading" /\ env' = env0)]_vars

\* C18 witness: the third line's offline-guarded load is running after the
\* loads of two earlier lines, one that raised and one that returned, and
\* both earlier lines have their responses.
C18_Witness ==
    /\ pc = "loading"
    /\ Len(nonblank) = 3
    /\ outLine = <<1, 2>>
    /\ \E k \in CacheKeys : loadCalls[k] = 1 /\ loadReturns[k] = 0 /\ k # cur.key
    /\ \E k \in CacheKeys : loadReturns[k] = 1

RECURSIVE OutsideThink(_, _)
\* what a sequence of pieces spells outside its thinking segments: a segment
\* runs from an opening tag to the next closing tag, or to the end of the
\* text when none follows (inside tells whether ps starts within a segment)
OutsideThink(ps, inside) ==
    IF ps = <<>> THEN <<>>
    ELSE IF inside THEN OutsideThink(Tail(ps), Head(ps) # ThinkClose)
    ELSE IF Head(ps) = ThinkOpen THEN OutsideThink(Tail(ps), TRUE)
    ELSE Head(ps) \o OutsideThink(Tail(ps), FALSE)

Occurs(pat, s) == Find(s, 1, pat) # 0

\* C19: after the first substitution no opening tag of the text is followed
\* by a closing tag; after the second the text is exactly what the generated
\* text spells outside its thinking segments, complete ones (each ended by
\* the first closing tag after its opening tag) and the one left open
\* through the end of the text, and holds no opening tag; so does the
\* cleaned text.  "<think>a</think>a" gives "a" and "<think>a" gives "".
C19_ThinkRemoved ==
    /\ pc \in {"complete_removed", "open_removed", "trimmed"} =>
          \A o \in 1..Len(cur.complete_removed) :
              MatchAt(cur.complete_removed, o, ThinkOpen) =>
                  Find(cur.complete_removed, o + Len(ThinkOpen), ThinkClose) = 0
    /\ pc \in {"open_removed", "trimmed"} =>
          /\ cur.open_removed = OutsideThink(cur.pieces, FALSE)
          /\ ~Occurs(ThinkOpen, cur.open_removed)
    /\ pc = "trimmed" =>
          /\ ~Occurs(ThinkOpen, cur.cleaned)
          /\ cur.pieces = <<ThinkOpen, <<"a">>, ThinkClose, <<"a">>>> =>
                cur.cleaned = <<"a">>
          /\ cur.pieces = <<ThinkOpen, <<"a">>>> => cur.cleaned = <<>>

\* C19 witness: "<think>a</think>a<think>", a complete segment, an answer
\* and a segment left open, has been cleaned to "a".
C19_Witness ==
    /\ pc = "trimmed"
    /\ cur.pieces = <<ThinkOpen, <<"a">>, ThinkClose, <<"a">>, ThinkOpen>>
    /\ cur.complete_removed = <<"a">> \o ThinkOpen
    /\ cur.open_removed = <<"a">>
    /\ cur.cleaned = <<"a">>

Quotes == {"\"", "'"}

\* s without one leading and without one trailing quote character, where it
\* has them
OneLayerOff(s) ==
    LET l == IF s # <<>> /\ Head(s) \in Quotes THEN Tail(s) ELSE s
    IN  IF l # <<>> /\ l[Len(l)] \in Quotes THEN Front(l) ELSE l

\* s is a text with a letter in it, wrapped in quote characters
Wrapped(s) ==
    /\ Len(s) >= 2
    /\ Head(s) \in Quotes
    /\ s[Len(s)] \in Quotes
    /\ \E i \in 1..Len(s) : s[i] = "a"

\* C20: of a text wrapped in quotes the trim takes, besides the surrounding
\* whitespace, one quote character (double or single) on each side and no
\* more: of several layers of quotes only the outermost goes.
C20_OneQuoteLayer ==
    (pc = "trimmed" /\ Wrapped(Strip(cur.open_removed))) =>
        cur.cleaned = Strip(OneLayerOff(Strip(cur.open_removed)))

\* the generated text holds neither tag
NoTags(ps) == \A i \in 1..Len(ps) : ps[i] \notin {ThinkOpen, ThinkClose}

\* C21 as stated: on a generated text without thinking tags, the cleanup of
\* the cleaned text is the cleaned text.
C21_Idempotent ==
    (pc = "cleaned_again" /\ NoTags(cur.pieces)) => cur.again = cur.cleaned

\* C21 as amended: on a generated text without thinking tags, the cleanup of
\* the cleaned text is the cleaned text whenever the cleaned text neither
\* begins nor ends with a quote character, as is the case for every text
\* without quote characters.
C21_IdempotentUnquoted ==
    (pc = "cleaned_again" /\ NoTags(cur.pieces)) =>
        LET c == cur.cleaned
            quoted == c # <<>> /\ (Head(c) \in Quotes \/ c[Len(c)] \in Quotes)
        IN  /\ ~quoted => cur.again = c
            /\ (\A i \in 1..Len(cur.generated) :
                    cur.generated[i] \notin Quotes) => ~quoted

\* C21 witness: the text '"a' followed by a line feed and a double quote was
\* cleaned to a, and the cleanup of a is a.
C21_Witness ==
    /\ pc = "cleaned_again"
    /\ cur.pieces = <<<<"\"">>, <<"a">>, <<"\n">>, <<"\"">>>>
    /\ cur.cleaned = <<"a">>
    /\ cur.again = <<"a">>

\* C25: the token budget is 128 for a text of at most 32 words, the empty
\* text included, four times the number of words for 33 to 1023 words, and
\* 4096 for 1024 words or more; it is never below 128 or above 4096.
C25_TokenBudget ==
    pc = "budgeted" =>
        /\ cur.max_tokens >= 128
        /\ cur.max_tokens <= 4096
        /\ cur.words <= 32 => cur.max_tokens = 128
        /\ (cur.words > 32 /\ cur.words < 1024) =>
              cur.max_tokens = 4 * cur.words
        /\ cur.words >= 1024 => cur.max_tokens = 4096

\* C25 witness: a text of 1025 words set off by tabs and line feeds has the
\* budget 4096.
C25_Witness ==
    /\ pc = "budgeted"
    /\ cur.words = 1025
    /\ Head(cur.text.c) = "\t"
    /\ cur.max_tokens = 4096

\* the response that carries the text v, "" when v is None or empty
TextResponse(v) ==
    <<ResultPayload(cur.req_id,
                    [success |-> TRUE, text |-> IF Truthy(v) THEN v ELSE PyStr("")])>>

\* the response is the extraction error
ExtractionError ==
    /\ Len(out) = 1
    /\ IsError(out[1])
    /\ out[1].error.message[1] = "Cannot extract text from result: "

\* the five shapes, on what model.generate returned
ListShape(r) == r.t = "list" /\ r.v # <<>>
TextField(r) == r.t = "object" /\ "text" \in DOMAIN r.v
TextsField(r) ==
    r.t = "object" /\ "texts" \in DOMAIN r.v /\ r.v["texts"].v # <<>>
TextKey(r) == r.t = "dict" /\ "text" \in DOMAIN r.v
TextsKey(r) ==
    r.t = "dict" /\ "texts" \in DOMAIN r.v /\ r.v["texts"].v # <<>>

\* the first four of the five shapes in their order, each giving its text
\* when no earlier shape matches
ShapesInOrder(r) ==
    /\ (ListShape(r) /\ TextField(r.v[1])) => out = TextResponse(r.v[1].v["text"])
    /\ TextField(r) => out = TextResponse(r.v["text"])
    /\ (TextsField(r) /\ ~TextField(r)) => out = TextResponse(r.v["texts"].v[1])
    /\ TextKey(r) => out = TextResponse(r.v["text"])
    /\ (TextsKey(r) /\ ~TextKey(r)) => out = TextResponse(r.v["texts"].v[1])

\* C26 as stated: the text of the first matching shape is returned, and a
\* result that matches none, a list whose first item has no text field
\* included, is answered with the extraction error.
C26_ExtractionShapes ==
    pc = "extracted" =>
        LET r == cur.result
        IN  /\ ShapesInOrder(r)
            /\ ~(\/ ListShape(r) /\ TextField(r.v[1])
                 \/ TextField(r) \/ TextsField(r) \/ TextKey(r) \/ TextsKey(r))
                  => ExtractionError

\* C26 as amended: the text of the first matching shape is returned; a
\* non-empty list whose first item has no text field gives the string form
\* of that item; a result that is neither a non-empty list nor matches one
\* of the other four shapes is answered with the extraction error.
C26_ExtractionShapesOrStr ==
    pc = "extracted" =>
        LET r == cur.result
        IN  /\ ShapesInOrder(r)
            /\ (ListShape(r) /\ ~TextField(r.v[1])) =>
                  out = TextResponse(PyStr(Str(r.v[1])))
            /\ ~(ListShape(r) \/ TextField(r) \/ TextsField(r) \/ TextKey(r)
                 \/ TextsKey(r))
                  => ExtractionError

\* C26 witness: an object with both a text and a non-empty texts field has
\* given its text.
C26_Witness ==
    /\ pc = "extracted"
    /\ cur.result = PyObject([text |-> PyStr("hello"),
                              texts |-> PyList(<<PyStr("first"), PyStr("second")>>)])
    /\ out = <<ResultPayload(PyInt(2), [success |-> TRUE, text |-> PyStr("hello")])>>

\* C27: when the shape that matches holds None or the empty string as its
\* text, the response is the result {success: true, text: ""}.
C27_EmptyTextIsEmptyString ==
    pc = "extracted" =>
        LET r == cur.result
            Empty(v) == v \in {None, PyStr("")}
            matched ==
                \/ ListShape(r) /\ TextField(r.v[1]) /\ Empty(r.v[1].v["text"])
                \/ TextField(r) /\ Empty(r.v["text"])
                \/ TextsField(r) /\ ~TextField(r) /\ Empty(r.v["texts"].v[1])
                \/ TextKey(r) /\ Empty(r.v["text"])
                \/ TextsKey(r) /\ ~TextKey(r) /\ Empty(r.v["texts"].v[1])
        IN  matched =>
              out = <<ResultPayload(cur.req_id,
                                    [success |-> TRUE, text |-> PyStr("")])>>

\* C27 witness: a mapping whose texts holds None first and no text key has
\* been answered with the empty text.
C27_Witness ==
    /\ pc = "extracted"
    /\ cur.result = PyDict([texts |-> PyList(<<None>>)])
    /\ out = <<ResultPayload(PyInt(2), [success |-> TRUE, text |-> PyStr("")])>>


(***************************************************************************)
(* One correct request from the dispatch that found its model missing from *)
(* the cache to the response written for it; the locals keep the record of *)
(* the library calls made (locals.events).                                 *)
(***************************************************************************)
CorrectTexts ==
    {PyText(<<>>), PyText(<<"u", "m", " ", "h", "i">>), PyInt(7)}
CorrectPrompts == {Absent, PyText(<<" ">>), PyText(<<"f", "i", "x", " ">>)}

\* a correct request with its repo and its text
CorrectLine(text, prompt) ==
    Line(FALSE, TRUE,
         Req(PyInt(3), PyStr("correct"),
             Dict({<<"repo", PyStr("A")>>, <<"text", text>>,
                   <<"prompt", prompt>>})))

\* the state ReadRequest leaves when the first line is such a request
CorrectInit ==
    /\ pc = "loading"
    /\ env0 = [k \in HF_ENV_KEYS |-> None]
    /\ cache = <<>>
    /\ \E text \in CorrectTexts, prompt \in CorrectPrompts :
        LET l == CorrectLine(text, prompt)
            h == HandleRequest(l.value, {})
        IN  /\ line = l
            /\ cur = [h.locals EXCEPT !.previous = SavedEnv(env0)]
            /\ loadCalls = [k \in CacheKeys |->
                               IF k = h.locals.key THEN 1 ELSE 0]
    /\ nonblank = <<TRUE>>
    /\ out = <<>>
    /\ outLine = <<>>
    /\ env = OfflineEnv(env0)
    /\ loadReturns = [k \in CacheKeys |-> 0]
    /\ reqLoads = 1

\* the text without its last character
AllButLast(s) == SubSeq(s, 1, Len(s) - 1)

\* what a call of mlx_lm.generate may do: the text it returns starts with
\* nothing of the prompt, the whole prompt, the prompt but for its last
\* character, or the prompt of the first attempt
CorrectOutcomes(locals) ==
    Outcomes({<<>>, PromptInUse(locals), AllButLast(PromptInUse(locals)),
              locals.chat_prompt},
             GenBodies \cup {<<>>, <<"\n">>})

\* correct() returns or raises: the response is written, and cur keeps the
\* locals as they were then
CorrectReturns(r) ==
    /\ pc' = "returned"
    /\ cur' = r.locals
    /\ Write(r.payload)

CorrectBegin ==
    /\ pc = "correct"
    /\ \E template_ok \in BOOLEAN, import_ok \in BOOLEAN :
        LET r == CorrectStep(cur, template_ok, import_ok)
        IN  IF r.kind = "again"
            THEN /\ pc' = "generate"
                 /\ cur' = r.locals
                 /\ UNCHANGED <<out, outLine>>
            ELSE CorrectReturns(r)
    /\ UNCHANGED <<line, nonblank, cache, env, env0, loadCalls,
                   loadReturns, reqLoads>>

CorrectGenerate ==
    /\ pc = "generate"
    /\ \E o \in CorrectOutcomes(cur) :
       \E template_ok \in RetryChoices(cur, o), import_ok \in RetryChoices(cur, o) :
        LET r == GenerateStep(cur, o, template_ok, import_ok)
        IN  IF r.kind = "again"
            THEN /\ cur' = r.locals
                 /\ UNCHANGED <<pc, out, outLine>>
            ELSE CorrectReturns(r)
    /\ UNCHANGED <<line, nonblank, cache, env, env0, loadCalls,
                   loadReturns, reqLoads>>

CorrectNext == LoadReturns \/ LoadRaises \/ CorrectBegin \/ CorrectGenerate

CorrectSpec == CorrectInit /\ [][CorrectNext]_vars

\* every library call returns or raises: a step that can be taken is taken
FairCorrectSpec == CorrectSpec /\ WF_vars(CorrectNext)

\* the library calls the correct request has made, in order
Events == IF cur = Idle THEN <<>> ELSE cur.events

\* where in Events mlx_lm.generate was called, where it returned, and where
\* the prompt was rendered with thinking disabled
GenerateCallsAt == {i \in 1..Len(Events) : Events[i].call = "generate"}
ReturnsAt == {i \in GenerateCallsAt : Events[i].outcome.kind = "return"}
RebuildsAt ==
    {i \in 1..Len(Events) :
        Events[i].call = "apply_chat_template" /\ ~Events[i].enable_thinking}
FirstOf(S) == CHOOSE i \in S : \A j \in S : i <= j
LastOf(S) == CHOOSE i \in S : \A j \in S : i >= j

\* the prefix strip, tag strip and trim of the text returned at i, the
\* prefix being the prompt that call was given
CleanedAt(i) == Cleanup(Events[i].outcome.generated, Events[i].prompt)

\* the prompt rendered with thinking disabled
NoThinkPrompt == ChatTemplate(SystemPrompt(cur.prompt), cur.text.c, FALSE)

\* the rendering at i and the import after it both succeeded
RetryStarted(i) ==
    /\ Len(Events) >= i + 1
    /\ Events[i].ok
    /\ Events[i + 1].ok

\* the calls of S are one call of _safe_generate: one call of generate, or
\* two when the first, made with temp and top_p, raised TypeError
OneSafeGenerate(S) ==
    /\ S # {}
    /\ \A i \in S \ {FirstOf(S)} :
        /\ i = FirstOf(S) + 1
        /\ Events[i - 1].sampling
        /\ Events[i - 1].outcome.kind = "TypeError"
        /\ ~Events[i].sampling

\* C22: once a correct request is answered, if its first generation came
\* back and cleaned up to the empty text, the prompt was rendered again
\* with thinking disabled, exactly once and right after; where that
\* rendering went through, generation was run once more (one call of
\* _safe_generate) on the new prompt with the token budget of the first,
\* never a third time, and a text it returned was cleaned the same way
\* and is the text of the response.  If the first cleaned text was not
\* empty, nothing was rendered or generated after it and it is the text
\* of the response.
C22_EmptyResultRetry ==
    (pc = "returned" /\ ReturnsAt # {}) =>
        LET first == FirstOf(ReturnsAt)
            retried == {i \in GenerateCallsAt : i > first}
        IN  IF CleanedAt(first) = <<>>
            THEN /\ RebuildsAt = {first + 1}
                 /\ RetryStarted(first + 1) =>
                     /\ OneSafeGenerate(retried)
                     /\ \A i \in retried :
                         /\ Events[i].prompt = NoThinkPrompt
                         /\ Events[i].max_tokens = Events[first].max_tokens
                     /\ Cardinality(ReturnsAt) <= 2
                     /\ Cardinality(ReturnsAt) = 2 =>
                         out = <<CorrectResult(cur.req_id,
                                               CleanedAt(LastOf(ReturnsAt)))>>
            ELSE /\ RebuildsAt = {}
                 /\ retried = {}
                 /\ out = <<CorrectResult(cur.req_id, CleanedAt(first))>>

\* the first generation cleaned up to nothing and the retry, on the prompt
\* rendered with thinking disabled, gave the text of the response
C22_Witness ==
    /\ pc = "returned"
    /\ Cardinality(ReturnsAt) = 2
    /\ CleanedAt(FirstOf(ReturnsAt)) = <<>>
    /\ Events[LastOf(ReturnsAt)].prompt = NoThinkPrompt
    /\ out = <<CorrectResult(cur.req_id, <<"h", "i">>)>>

\* the retry came to nothing: its rendering raised, its import failed, or
\* its generation raised
RetryFailed ==
    /\ RebuildsAt # {}
    /\ LET r == FirstOf(RebuildsAt)
       IN  \/ ~RetryStarted(r)
           \/ Events[Len(Events)].call = "generate"
              /\ Events[Len(Events)].outcome.kind # "return"

\* C23: when the retry of a correct request fails (the rendering with
\* thinking disabled raises, or the generation raises), the one response
\* of the request is the success {success: true, text: ""}, the text
\* being what the first attempt left, and not an error.
C23_RetryFailureSwallowed ==
    (pc = "returned" /\ RetryFailed) =>
        /\ CleanedAt(FirstOf(ReturnsAt)) = <<>>
        /\ out = <<CorrectResult(cur.req_id, <<>>)>>

\* the generation of the retry raised, and the response is a success
C23_Witness ==
    /\ pc = "returned"
    /\ RetryFailed
    /\ RetryStarted(FirstOf(RebuildsAt))
    /\ Events[Len(Events)].outcome.kind = "raise"
    /\ ~IsError(out[1])

\* the correct request has a string for its text
ValidText == cur # Idle /\ cur.text.t = "str"

\* the import of generate failed in the first attempt
ImportFailed ==
    \E i \in 1..Len(Events) :
        /\ Events[i].call = "import"
        /\ ~Events[i].ok
        /\ RebuildsAt = {}

\* the generation of the first attempt raised out of _safe_generate
FirstGenerationRaised ==
    /\ RebuildsAt = {}
    /\ Events # <<>>
    /\ Events[Len(Events)].call = "generate"
    /\ Events[Len(Events)].outcome.kind # "return"

\* the load of the model raised and the request is over
LoadFailed == pc = "read"

\* C24 as stated: a correct request with valid parameters is answered with
\* {success: true, text} whenever a generation completed, and with an
\* error only when the load of the model or the import of generate failed.
C24_OnlyHardErrors ==
    /\ (pc = "returned" /\ ReturnsAt # {}) =>
            /\ ~IsError(out[1])
            /\ DOMAIN out[1].result = {"success", "text"}
            /\ out[1].result.success
    /\ (pc = "returned" /\ ValidText /\ IsError(out[1])) => ImportFailed
    /\ LoadFailed => (Len(out) = 1 /\ IsError(out[1]))

\* C24 amended: ... and with an error only when the load of the model or
\* the import of generate failed, or when the generation of the first
\* attempt raised.
C24_HardErrorsOrGenerationRaised ==
    /\ (pc = "returned" /\ ReturnsAt # {}) =>
            /\ ~IsError(out[1])
            /\ DOMAIN out[1].result = {"success", "text"}
            /\ out[1].result.success
    /\ (pc = "returned" /\ ValidText /\ IsError(out[1])) =>
            (ImportFailed \/ FirstGenerationRaised)
    /\ LoadFailed => (Len(out) = 1 /\ IsError(out[1]))

\* the call without temp and top_p raised in the first attempt and the
\* request was answered with an error
C24_Witness ==
    /\ pc = "returned"
    /\ ValidText
    /\ FirstGenerationRaised
    /\ ~Events[Len(Events)].sampling
    /\ IsError(out[1])

\* the call of generate at i is the first of its _safe_generate: it comes
\* right after the import
OpensSafeGenerate(i) == Events[i - 1].call = "import"

\* the call of generate at i raised TypeError, having been given temp and
\* top_p
RejectedSampling(i) ==
    Events[i].sampling /\ Events[i].outcome.kind = "TypeError"

\* C28: in every _safe_generate the first call of generate is made with
\* temp and top_p; a call without them is made if and only if that first
\* call raised TypeError, it is made once, right after, with the same
\* prompt and token budget; any other exception of the first call, and any
\* exception of the second, ends the generation with no further call, and
\* in the first attempt reaches the dispatcher, which answers with an error.
C28_SamplingFallback ==
    \A i \in GenerateCallsAt :
        /\ Events[i].sampling <=> OpensSafeGenerate(i)
        /\ ~Events[i].sampling =>
            /\ RejectedSampling(i - 1)
            /\ Events[i].prompt = Events[i - 1].prompt
            /\ Events[i].max_tokens = Events[i - 1].max_tokens
        /\ RejectedSampling(i) =>
            /\ i = Len(Events) => pc = "generate"
            /\ i < Len(Events) => /\ Events[i + 1].call = "generate"
                                  /\ ~Events[i + 1].sampling
        /\ (Events[i].outcome.kind # "return" /\ ~RejectedSampling(i)) =>
            /\ i = Len(Events)
            /\ pc = "returned"
            /\ RebuildsAt = {} => IsError(out[1])

\* the call with temp and top_p raised TypeError, the call without them
\* returned, and the request was answered with its text
C28_Witness ==
    /\ pc = "returned"
    /\ Len(Events) = 4
    /\ RejectedSampling(3)
    /\ ~Events[4].sampling
    /\ Events[4].outcome.kind = "return"
    /\ out = <<CorrectResult(cur.req_id, <<"h", "i">>)>>

\* the prompt of the first attempt, as _safe_chat_template gave it
FirstPrompt ==
    IF Events[1].ok
    THEN ChatTemplate(SystemPrompt(cur.prompt), cur.text.c, TRUE)
    ELSE FallbackPrompt(SystemPrompt(cur.prompt), cur.text.c)

\* g with the prompt p taken off its front if all of p is there, else g
WithoutEcho(g, p) ==
    IF Len(p) <= Len(g) /\ \A k \in 1..Len(p) : g[k] = p[k]
    THEN [k \in 1..(Len(g) - Len(p)) |-> g[k + Len(p)]]
    ELSE g

\* C29: the text of the response is what the tag strip and the trim make
\* of the last generated text, from whose front the prompt was taken first
\* if and only if the text starts with the whole prompt; the prompt
\* compared is the one rendered with thinking disabled when the text comes
\* from the retry, and the first prompt otherwise.
C29_PrefixStrip ==
    (pc = "returned" /\ ReturnsAt # {}) =>
        LET last == LastOf(ReturnsAt)
            prompt == IF RebuildsAt # {} /\ last > FirstOf(RebuildsAt)
                      THEN NoThinkPrompt
                      ELSE FirstPrompt
            body == WithoutEcho(Events[last].outcome.generated, prompt)
        IN  out[1].result.text.c =
                TrimQuotes(StripOpenThink(StripCompleteThink(body)))

\* the retry's output starts with the first prompt, which is not the
\* prompt of the retry, and the prompt is still in the text of the response
C29_Witness ==
    /\ pc = "returned"
    /\ Cardinality(ReturnsAt) = 2
    /\ FirstPrompt # NoThinkPrompt
    /\ WithoutEcho(out[1].result.text.c, FirstPrompt) = <<"h", "i">>

\* apply_chat_template raised in the first attempt of a request whose text
\* is a string
TemplateFailed == ValidText /\ Events # <<>> /\ ~Events[1].ok

\* C30: when the rendering of the chat template raises in the first
\* attempt, the request is not answered for it: the import of generate
\* comes next and, if that goes through, generate is called with the
\* instruction, a blank line and the raw text as its prompt.
C30_TemplateFallback ==
    TemplateFailed =>
        LET fallback == SystemPrompt(cur.prompt) \o <<"\n", "\n">> \o cur.text.c
        IN  /\ Len(Events) >= 2
            /\ Events[2].call = "import"
            /\ Events[2].ok =>
                /\ cur.chat_prompt = fallback
                /\ Len(Events) = 2 => pc = "generate"
                /\ Len(Events) > 2 =>
                    /\ Events[3].call = "generate"
                    /\ Events[3].prompt = fallback

\* the rendering raised, generate was given "fix", a blank line and the
\* text, and the request was answered with the text generated
C30_Witness ==
    /\ pc = "returned"
    /\ TemplateFailed
    /\ Len(Events) >= 3
    /\ Events[3].prompt = <<"f", "i", "x", "\n", "\n", "u", "m", " ", "h", "i">>
    /\ out = <<CorrectResult(cur.req_id, <<"h", "i">>)>>

\* the messages the two loaders start with when their import fails
LoaderImportPrefixes == {"parakeet-mlx import failed: ", "mlx-lm import failed: "}

\* the step answers the request it reads with the error of a loader whose
\* import failed
LoaderImportFails ==
    /\ ReadsRequest
    /\ out' # <<>>
    /\ IsError(out'[1])
    /\ Head(out'[1].error.message) \in LoaderImportPrefixes

\* C31: a request whose loader fails to import its library is answered, in
\* the step that reads it, with one error whose message ends with the
\* import error; the step leaves the offline flags, the cache and the
\* counts of load calls as they were, and the daemon goes on to read the
\* next line (no load is under way).
C31_LoaderImportFailure ==
    [][LoaderImportFails =>
        /\ Len(out') = 1
        /\ out'[1].error.message \in
               {<<prefix, "<exc>">> : prefix \in LoaderImportPrefixes}
        /\ env' = env
        /\ cache' = cache
        /\ loadCalls' = loadCalls
        /\ reqLoads' = 0
        /\ pc' = "read"]_vars

\* a warmup of type mlx was answered with the import error of mlx_lm, after
\* an earlier request had loaded a model; flags, cache and load counts are
\* those the earlier request left
C31_Witness ==
    /\ pc = "read"
    /\ line = WarmupLine("mlx", "A")
    /\ out = <<ErrorPayload(PyInt(4), <<"mlx-lm import failed: ", "<exc>">>)>>
    /\ reqLoads = 0
    /\ env = env0
    /\ <<"mlx", "A">> \notin DOMAIN cache
    /\ loadCalls[<<"mlx", "A">>] = 0
    /\ cache # <<>>

(***************************************************************************)
(* The cleanup of correct() on texts put together from whole tags and from *)
(* the two halves of an opening tag, so that taking a segment out can join *)
(* what is around it into a tag.                                           *)
(***************************************************************************)
ThinkHead == <<"<", "t", "h", "i">>
ThinkTail == <<"n", "k", ">">>
TagPieces == {ThinkOpen, ThinkClose, ThinkHead, ThinkTail, <<"x">>, <<"\"">>}
TagTexts == UNION {[1..n -> TagPieces] : n \in 0..MaxPieces}

TagInit ==
    /\ pc = "generated"
    /\ \E pieces \in TagTexts : cur = CleanupLocals(pieces)
    /\ line = NoLine
    /\ nonblank = <<>>
    /\ out = <<>>
    /\ outLine = <<>>
    /\ cache = <<>>
    /\ env0 = [k \in HF_ENV_KEYS |-> None]
    /\ env = env0
    /\ loadCalls = [k \in CacheKeys |-> 0]
    /\ loadReturns = [k \in CacheKeys |-> 0]
    /\ reqLoads = 0

TagSpec == TagInit /\ [][CleanupNext]_vars

\* C32: the text the cleanup ends with holds no "<think>", whatever was
\* generated, and so does that text cleaned once more.
C32_NoThinkOpen ==
    /\ pc \in {"trimmed", "cleaned_again"} => ~Occurs(ThinkOpen, cur.cleaned)
    /\ pc = "cleaned_again" => ~Occurs(ThinkOpen, cur.again)

\* taking the complete segment out of <thi<think>x</think>nk> joined the
\* two halves into "<think>", and the cleaned text is empty
C32_Witness ==
    /\ pc = "trimmed"
    /\ cur.pieces = <<ThinkHead, ThinkOpen, <<"x">>, ThinkClose, ThinkTail>>
    /\ cur.complete_removed = ThinkOpen
    /\ cur.cleaned = <<>>

\* the request is a warmup, a correct or a transcribe that gets as far as
\* its loader unless an import fails: a warmup with one of the three types
\* and a repo, a correct with a repo and a text, a transcribe of a file
\* that can be read
ReachesLoader(request) ==
    LET params == ParamsOf(request)
    IN  /\ params.t = "dict"
        /\ \/ /\ IsStr(MethodOf(request), "warmup")
              /\ Truthy(Get(params, "repo"))
              /\ \E t \in WarmupTypes : IsStr(Get(params, "type"), t)
           \/ /\ IsStr(MethodOf(request), "correct")
              /\ Truthy(Get(params, "repo"))
              /\ Get(params, "text") # None
           \/ /\ IsStr(MethodOf(request), "transcribe")
              /\ IsStr(Get(params, "pcm_path"), "/audio.pcm")

\* the cache key of such a request
KeyOf(request) ==
    LET params == ParamsOf(request)
    IN  IF IsStr(MethodOf(request), "warmup")
        THEN WarmupKey(request)
        ELSE IF IsStr(MethodOf(request), "correct")
        THEN <<"mlx", Get(params, "repo").v>>
        ELSE <<"parakeet",
               Or(Get(params, "repo"), PyStr(DEFAULT_PARAKEET_REPO)).v>>

\* the step ends the load under way with an error response
LoadEndsInError ==
    /\ pc' = "read"
    /\ out' # <<>>
    /\ IsError(out'[Len(out')])

\* C33: a load that a warmup, a transcribe or a correct started puts its
\* key in the cache when it succeeds and leaves it out when it fails; a
\* warmup, transcribe or correct read while its key is in the cache makes
\* no load call, whichever request put the key there, and one read while
\* its key is not in the cache calls the load, unless an import fails.
C33_CacheShared ==
    [][/\ pc = "loading" =>
            /\ cur.key \notin DOMAIN cache
            /\ LoadEndsInError <=> cur.key \notin DOMAIN cache'
       /\ (ReadsRequest /\ ReachesLoader(line'.value)) =>
            LET key == KeyOf(line'.value)
            IN  IF key \in DOMAIN cache
                THEN /\ loadCalls' = loadCalls
                     /\ reqLoads' = 0
                     /\ pc' # "loading"
                ELSE \/ /\ pc' = "loading"
                        /\ cur'.key = key
                        /\ loadCalls' = [loadCalls EXCEPT ![key] = @ + 1]
                     \/ /\ pc' = "read"
                        /\ loadCalls' = loadCalls
                        /\ Len(out') = 1
                        /\ IsError(out'[1])
                        /\ out'[1].error.message[2] = "<exc>"]_vars

\* the second line is a correct for repo B that found the model in the
\* cache: the only load call for (mlx, B) was made for the first line
C33_Witness ==
    /\ pc = "correct"
    /\ Len(nonblank) = 2
    /\ cur.key = <<"mlx", "B">>
    /\ reqLoads = 0
    /\ loadCalls[<<"mlx", "B">>] = 1
    /\ cache = (<<"mlx", "B">> :> Handle(<<"mlx", "B">>, 1))

\* the key a warmup with one of the three types and a repo stands for:
\* its kind is parakeet for the type parakeet, mlx for mlx and correction
KindOfType(type) == IF type = "parakeet" THEN "parakeet" ELSE "mlx"

\* C34: every cache entry is under a key of kind parakeet or mlx and was
\* put there by the one load of that key that returned; a warmup of type
\* mlx and one of type correction with the same repo both stand for the
\* key (mlx, repo), a warmup of type parakeet for (parakeet, repo): the
\* load a warmup waits for is the load of its key, started only while the
\* key was not cached, and a warmup answered {success: true} has its key
\* cached; the same repo cached under both kinds is two entries from two
\* loads.
C34_WarmupKeys ==
    /\ \A k \in DOMAIN cache :
        /\ k[1] \in {"parakeet", "mlx"}
        /\ loadReturns[k] = 1
        /\ cache[k] = Handle(k, loadCalls[k])
    /\ \A r \in Repos :
        {<<"parakeet", r>>, <<"mlx", r>>} \subseteq DOMAIN cache =>
            /\ cache[<<"parakeet", r>>] # cache[<<"mlx", r>>]
            /\ loadCalls[<<"parakeet", r>>] >= 1
            /\ loadCalls[<<"mlx", r>>] >= 1
    /\ \A t \in WarmupTypes, r \in Repos :
        line = WarmupLine(t, r) =>
            LET key == <<KindOfType(t), r>>
            IN  /\ pc = "loading" => (cur.key = key /\ key \notin DOMAIN cache)
                /\ (pc # "loading" /\ Len(out) = 1 /\ IsResult(out[1])) =>
                       key \in DOMAIN cache

\* a warmup of type correction for A was answered from the cache after
\* (mlx, A) and (parakeet, A) had been loaded, once each
C34_Witness ==
    /\ pc = "read"
    /\ line = WarmupLine("correction", "A")
    /\ out = <<ResultPayload(PyInt(4), [success |-> TRUE])>>
    /\ reqLoads = 0
    /\ DOMAIN cache = {<<"parakeet", "A">>, <<"mlx", "A">>}
    /\ loadCalls[<<"parakeet", "A">>] = 1
    /\ loadCalls[<<"mlx", "A">>] = 1

\* C35: while a correct request is handled the underlying load is called
\* at most once, the prompt is rendered again at most once, and generate
\* is called at most four times, at most twice before and at most twice
\* after that rendering; if every library call returns or raises, the
\* request gets its one response.
C35_BoundedCalls ==
    /\ [](/\ reqLoads <= 1
          /\ \A k \in CacheKeys : loadCalls[k] <= 1
          /\ Cardinality(RebuildsAt) <= 1
          /\ Cardinality(GenerateCallsAt) <= 4
          /\ \A r \in RebuildsAt :
                /\ Cardinality({i \in GenerateCallsAt : i < r}) <= 2
                /\ Cardinality({i \in GenerateCallsAt : i > r}) <= 2
          /\ RebuildsAt = {} => Cardinality(GenerateCallsAt) <= 2)
    /\ <>(pc \in {"read", "returned"} /\ Len(out) = 1)

\* a correct request answered after four calls of generate
C35_Witness ==
    /\ pc = "returned"
    /\ Cardinality(GenerateCallsAt) = 4
    /\ Len(out) = 1

(***************************************************************************)
(* load_parakeet_model(repo) called by two threads at once with the same   *)
(* repo (loader.py lines 33-52 with _set_offline_env and _restore_env).    *)
(* The code takes no lock; a thread switch can come between any two        *)
(* statements.  pc and cur hold the position and the locals of each caller.*)
(***************************************************************************)
Callers == {1, 2}
SharedKey == <<"parakeet", "A">>

CallerLocals == [method |-> "load", key |-> SharedKey, previous |-> None,
                 model |-> None, ok |-> TRUE]

ConcurrentInit ==
    /\ pc = [c \in Callers |-> "lookup"]
    /\ cur = [c \in Callers |-> CallerLocals]
    /\ env0 \in StartEnvs
    /\ env = env0
    /\ cache = <<>>
    /\ loadCalls = [k \in CacheKeys |-> 0]
    /\ loadReturns = [k \in CacheKeys |-> 0]
    /\ line = NoLine
    /\ nonblank = <<>>
    /\ out = <<>>
    /\ outLine = <<>>
    /\ reqLoads = 0

\* caller c goes from position from to position to
Goes(c, from, to) ==
    /\ pc[c] = from
    /\ pc' = [pc EXCEPT ![c] = to]
    /\ UNCHANGED <<line, nonblank, out, outLine, env0, reqLoads>>

\* mutant of SetFlag: the flag is set to "true"
SetFlagTrue(e, k) == [e EXCEPT ![k] = PyStr("true")]

\* os.environ[k] = "1"
SetFlag(e, k) == [e EXCEPT ![k] = PyStr("1")]

\* one step of _restore_env's loop, for the key k
RestoreFlag(e, previous, k) == [e EXCEPT ![k] = previous[k]]

\* if cache_key in MODEL_CACHE: return MODEL_CACHE[cache_key]
Lookup(c) ==
    /\ IF SharedKey \in DOMAIN cache
       THEN /\ Goes(c, "lookup", "returned")
            /\ cur' = [cur EXCEPT ![c].model = cache[SharedKey]]
       ELSE /\ Goes(c, "lookup", "save")
            /\ UNCHANGED cur
    /\ UNCHANGED <<env, cache, loadCalls, loadReturns>>

\* previous = {k: os.environ.get(k) for k in HF_ENV_KEYS}
SaveFlags(c) ==
    /\ Goes(c, "save", "set_hub")
    /\ cur' = [cur EXCEPT ![c].previous = SavedEnv(env)]
    /\ UNCHANGED <<env, cache, loadCalls, loadReturns>>

SetHub(c) ==
    /\ Goes(c, "set_hub", "set_transformers")
    /\ env' = SetFlag(env, "HF_HUB_OFFLINE")
    /\ UNCHANGED <<cur, cache, loadCalls, loadReturns>>

SetTransformers(c) ==
    /\ Goes(c, "set_transformers", "call")
    /\ env' = SetFlag(env, "TRANSFORMERS_OFFLINE")
    /\ UNCHANGED <<cur, cache, loadCalls, loadReturns>>

\* from_pretrained(repo) is called
CallLoad(c) ==
    /\ Goes(c, "call", "loading")
    /\ loadCalls' = [loadCalls EXCEPT ![SharedKey] = @ + 1]
    /\ cur' = [cur EXCEPT ![c].model = Handle(SharedKey, loadCalls'[SharedKey])]
    /\ UNCHANGED <<env, cache, loadReturns>>

\* from_pretrained(repo) returns or raises
LoadEnds(c) ==
    /\ Goes(c, "loading", "restore_hub")
    /\ \E ok \in BOOLEAN :
        /\ cur' = [cur EXCEPT ![c].ok = ok]
        /\ loadReturns' = [loadReturns EXCEPT ![SharedKey] =
                               IF ok THEN @ + 1 ELSE @]
    /\ UNCHANGED <<env, cache, loadCalls>>

RestoreHub(c) ==
    /\ Goes(c, "restore_hub", "restore_transformers")
    /\ env' = RestoreFlag(env, cur[c].previous, "HF_HUB_OFFLINE")
    /\ UNCHANGED <<cur, cache, loadCalls, loadReturns>>

RestoreTransformers(c) ==
    /\ Goes(c, "restore_transformers", IF cur[c].ok THEN "store" ELSE "raised")
    /\ env' = RestoreFlag(env, cur[c].previous, "TRANSFORMERS_OFFLINE")
    /\ UNCHANGED <<cur, cache, loadCalls, loadReturns>>

\* MODEL_CACHE[cache_key] = model; return model
StoreModel(c) ==
    /\ Goes(c, "store", "returned")
    /\ cache' = CacheStore(cache, SharedKey, cur[c].model)
    /\ UNCHANGED <<cur, env, loadCalls, loadReturns>>

ConcurrentNext ==
    \/ \E c \in Callers : Lookup(c)
    \/ \E c \in Callers : SaveFlags(c)
    \/ \E c \in Callers : SetHub(c)
    \/ \E c \in Callers : SetTransformers(c)
    \/ \E c \in Callers : CallLoad(c)
    \/ \E c \in Callers : LoadEnds(c)
    \/ \E c \in Callers : RestoreHub(c)
    \/ \E c \in Callers : RestoreTransformers(c)
    \/ \E c \in Callers : StoreModel(c)

ConcurrentSpec == ConcurrentInit /\ [][ConcurrentNext]_vars

\* both callers are through
BothDone == \A c \in Callers : pc[c] \in {"returned", "raised"}

\* C36 as stated: with two concurrent callers for one absent key the
\* underlying load is called once, and once both callers are through the
\* two offline flags have their original values.
C36_SingleFlight ==
    /\ loadCalls[SharedKey] <= 1
    /\ BothDone => env = env0

\* C36 amended: the load is called at most once by each caller, so at most
\* twice; once both callers are through, each flag has its original value
\* or "1", and the flags have their original values if the load was called
\* once or not at all; the cached model is that of a load that returned.
C36_LoadPerCaller ==
    /\ loadCalls[SharedKey] <= Cardinality(Callers)
    /\ BothDone =>
        /\ \A k \in HF_ENV_KEYS : env[k] \in {env0[k], PyStr("1")}
        /\ loadCalls[SharedKey] <= 1 => env = env0
        /\ SharedKey \in DOMAIN cache <=> loadReturns[SharedKey] >= 1
        /\ \A c \in Callers :
              pc[c] = "returned" =>
                 \E n \in 1..loadCalls[SharedKey] :
                     cur[c].model = Handle(SharedKey, n)

\* both callers loaded the model and returned, and a flag that was unset
\* at the start is left at "1"
C36_Witness ==
    /\ \A c \in Callers : pc[c] = "returned"
    /\ loadCalls[SharedKey] = 2
    /\ env0["HF_HUB_OFFLINE"] = None
    /\ env["HF_HUB_OFFLINE"] = PyStr("1")

(***************************************************************************)
(* verify_mlx.py and verify_parakeet.py: main().  out holds the objects    *)
(* emit() printed, env the two offline flags, cur the script, its repo and *)
(* the status main() returned.  Every call of the library returns or       *)
(* raises an Exception; the import raises ImportError or another one.      *)
(***************************************************************************)
Scripts == {"verify_mlx", "verify_parakeet"}

\* sys.argv[1], Absent when there is none
VerifyArgs == {Absent, PyStr(""), PyStr("A")}

\* repo = sys.argv[1] if len(sys.argv) > 1 else <default>
VerifyRepo(script, arg) ==
    IF arg # Absent THEN arg
    ELSE IF script = "verify_mlx" THEN PyStr("")
    ELSE PyStr(DEFAULT_PARAKEET_REPO)

VerifyLocals(script, arg) ==
    [method |-> "verify", script |-> script, repo |-> VerifyRepo(script, arg),
     exit |-> None]

VerifyInit ==
    /\ pc = "main"
    /\ \E script \in Scripts, arg \in VerifyArgs :
        cur = VerifyLocals(script, arg)
    /\ env0 \in StartEnvs
    /\ env = env0
    /\ out = <<>>
    /\ line = NoLine
    /\ nonblank = <<>>
    /\ outLine = <<>>
    /\ cache = <<>>
    /\ loadCalls = [k \in CacheKeys |-> 0]
    /\ loadReturns = [k \in CacheKeys |-> 0]
    /\ reqLoads = 0

\* emit(status, message)
Emit(status, message) ==
    out' = Append(out, [status |-> status, message |-> message])

\* return code
Returns(code) ==
    /\ pc' = "exited"
    /\ cur' = [cur EXCEPT !.exit = PyInt(code)]

VerifyFrame ==
    UNCHANGED <<line, nonblank, outLine, cache, env0, loadCalls, loadReturns,
                reqLoads>>

\* verify_mlx: if not repo: emit("error", ...); return 1; then, in both
\* scripts, emit("checking", ...)
Checking ==
    /\ pc = "main"
    /\ IF cur.script = "verify_mlx" /\ ~Truthy(cur.repo)
       THEN /\ Emit("error", "No repo specified")
            /\ Returns(1)
       ELSE /\ Emit("checking", "Importing")
            /\ pc' = "import"
            /\ UNCHANGED cur
    /\ UNCHANGED env
    /\ VerifyFrame

\* from mlx_lm import load / from parakeet_mlx import from_pretrained
Import ==
    /\ pc = "import"
    /\ \E outcome \in {"ok", "ImportError", "Exception"} :
        IF outcome = "ok"
        THEN /\ pc' = "set_offline"
             /\ UNCHANGED <<out, cur>>
        ELSE /\ Emit("error", IF outcome = "ImportError"
                               THEN "not installed" ELSE "Error")
             /\ Returns(1)
    /\ UNCHANGED env
    /\ VerifyFrame

\* os.environ['HF_HUB_OFFLINE'] = '1'; os.environ['TRANSFORMERS_OFFLINE']
\* = '1'; emit("loading", ...)
Loading ==
    /\ pc = "set_offline"
    /\ env' = [k \in HF_ENV_KEYS |-> PyStr("1")]
    /\ Emit("loading", "Trying offline cache")
    /\ pc' = "offline_load"
    /\ UNCHANGED cur
    /\ VerifyFrame

\* the offline load returns: emit("complete", ...); return 0
OfflineLoadReturns ==
    /\ pc = "offline_load"
    /\ Emit("complete", "Model ready (offline)")
    /\ Returns(0)
    /\ UNCHANGED env
    /\ VerifyFrame

\* mutant of OfflineLoadRaises: TRANSFORMERS_OFFLINE is left set
OfflineLoadRaisesKeepsFlag ==
    /\ pc = "offline_load"
    /\ env' = [env EXCEPT !["HF_HUB_OFFLINE"] = None]
    /\ Emit("downloading", "Offline unavailable")
    /\ pc' = "online_load"
    /\ UNCHANGED cur
    /\ VerifyFrame

\* the offline load raises: the two flags are popped, then
\* emit("downloading", ...)
OfflineLoadRaises ==
    /\ pc = "offline_load"
    /\ env' = [k \in HF_ENV_KEYS |-> None]
    /\ Emit("downloading", "Offline unavailable")
    /\ pc' = "online_load"
    /\ UNCHANGED cur
    /\ VerifyFrame

\* the second load returns (complete, 0) or raises (error, 1)
OnlineLoad ==
    /\ pc = "online_load"
    /\ \E outcome \in {"ok", "ImportError", "Exception"} :
        IF outcome = "ok"
        THEN /\ Emit("complete", "Model downloaded and ready")
             /\ Returns(0)
        ELSE /\ Emit("error", IF outcome = "ImportError"
                               THEN "not installed" ELSE "Error")
             /\ Returns(1)
    /\ UNCHANGED env
    /\ VerifyFrame

VerifyNext ==
    \/ Checking
    \/ Import
    \/ Loading
    \/ OfflineLoadReturns
    \/ OfflineLoadRaises
    \/ OnlineLoad

VerifySpec == VerifyInit /\ [][VerifyNext]_vars

\* the statuses emitted so far, in order
Statuses == [i \in 1..Len(out) |-> out[i].status]
TerminalStatuses == {"complete", "error"}

\* where a status stands in the order of a run
StatusRank(status) ==
    CASE status = "checking" -> 1
      [] status = "loading" -> 2
      [] status = "downloading" -> 3
      [] OTHER -> 4

\* C37: the statuses of a run come in the order checking, loading,
\* downloading, terminal status, each at most once; loading comes right
\* after checking, downloading right after loading, complete right after
\* loading or downloading; downloading is emitted only when the offline
\* load has raised, and with both offline flags removed; a terminal
\* status is the last thing emitted, and a run that has ended has emitted
\* exactly one, complete with exit status 0 or error with exit status 1.
C37_StatusOrder ==
    LET st == Statuses
        n == Len(st)
    IN  /\ \A i \in 1..n, j \in 1..n :
            i < j => StatusRank(st[i]) < StatusRank(st[j])
        /\ \A i \in 1..n :
            /\ st[i] = "loading" => (i > 1 /\ st[i - 1] = "checking")
            /\ st[i] = "downloading" => (i > 1 /\ st[i - 1] = "loading")
            /\ st[i] = "complete" =>
                  (i > 1 /\ st[i - 1] \in {"loading", "downloading"})
            /\ st[i] \in TerminalStatuses => (i = n /\ pc = "exited")
        /\ (n > 0 /\ st[n] = "downloading") =>
            /\ pc = "online_load"
            /\ \A k \in HF_ENV_KEYS : env[k] = None
        /\ pc = "offline_load" => \A k \in HF_ENV_KEYS : env[k] = PyStr("1")
        /\ pc = "exited" =>
            /\ n > 0
            /\ st[n] \in TerminalStatuses
            /\ cur.exit = IF st[n] = "complete" THEN PyInt(0) ELSE PyInt(1)

\* verify_parakeet, run without an argument where HF_HUB_OFFLINE was "0",
\* ended with status 0 after checking, loading, downloading, complete
C37_Witness ==
    /\ pc = "exited"
    /\ cur.script = "verify_parakeet"
    /\ cur.repo = PyStr(DEFAULT_PARAKEET_REPO)
    /\ env0["HF_HUB_OFFLINE"] = PyStr("0")
    /\ Statuses = <<"checking", "loading", "downloading", "complete">>
    /\ cur.exit = PyInt(0)

(***************************************************************************)
(* mlx_semantic_correct.py: main() and sys.exit(main()).  out holds the    *)
(* objects printed, cur.argc is len(sys.argv), cur.ret what main()         *)
(* returned and cur.status the exit status of the process.                 *)
(***************************************************************************)
ArgCounts == {1, 2, 3, 4}

OneShotLocals(argc) ==
    [method |-> "one_shot", argc |-> argc, prompt |-> <<>>, sampling |-> TRUE,
     previous |-> None, ret |-> Absent, status |-> Absent]

OneShotInit ==
    /\ pc = "main"
    /\ \E argc \in ArgCounts : cur = OneShotLocals(argc)
    /\ env0 \in StartEnvs
    /\ env = env0
    /\ out = <<>>
    /\ line = NoLine
    /\ nonblank = <<>>
    /\ outLine = <<>>
    /\ cache = <<>>
    /\ loadCalls = [k \in CacheKeys |-> 0]
    /\ loadReturns = [k \in CacheKeys |-> 0]
    /\ reqLoads = 0

\* print(json.dumps({"success": False, "error": message}))
PrintFailure(message) ==
    out' = Append(out, [success |-> FALSE, error |-> message])

\* print(json.dumps({"success": True, "text": cleaned}))
PrintSuccess(cleaned) ==
    out' = Append(out, [success |-> TRUE, text |-> cleaned])

\* main() returns value
MainReturns(value) ==
    /\ pc' = "returned"
    /\ cur' = [cur EXCEPT !.ret = value]

OneShotFrame ==
    UNCHANGED <<line, nonblank, outLine, cache, env0, loadCalls, loadReturns,
                reqLoads>>

\* from mlx_lm import load, generate
MainImport ==
    /\ pc = "main"
    /\ \E ok \in BOOLEAN :
        IF ok
        THEN /\ pc' = "argv"
             /\ UNCHANGED <<out, cur>>
        ELSE /\ PrintFailure(<<"mlx-lm import failed: ", "<exc>">>)
             /\ MainReturns(PyInt(1))
    /\ UNCHANGED env
    /\ OneShotFrame

\* if len(sys.argv) < 3: usage, return 2
MainArgs ==
    /\ pc = "argv"
    /\ IF cur.argc < 3
       THEN /\ PrintFailure(<<"Usage: mlx_semantic_correct.py <model_repo> <input_text_file> [prompt_file]">>)
            /\ MainReturns(PyInt(2))
       ELSE /\ pc' = "read"
            /\ UNCHANGED <<out, cur>>
    /\ UNCHANGED env
    /\ OneShotFrame

\* the input file is read, or not
MainRead ==
    /\ pc = "read"
    /\ \E ok \in BOOLEAN :
        IF ok
        THEN /\ pc' = "load"
             /\ UNCHANGED <<out, cur>>
        ELSE /\ PrintFailure(<<"Failed to read input: ", "<exc>">>)
             /\ MainReturns(PyInt(3))
    /\ UNCHANGED env
    /\ OneShotFrame

\* the two flags are saved and set, load(model_repo) is called
MainLoad ==
    /\ pc = "load"
    /\ cur' = [cur EXCEPT !.previous = SavedEnv(env)]
    /\ env' = [k \in HF_ENV_KEYS |-> PyStr("1")]
    /\ pc' = "loading"
    /\ UNCHANGED out
    /\ OneShotFrame

\* the value of print(...), which main() returns when the load raised
PrintValue == None

\* load(model_repo) returns (the prompt is built, by the template or by
\* the fallback), or raises: the flags are restored and main() returns
\* what print returns
MainLoadEnds ==
    /\ pc = "loading"
    /\ \E ok \in BOOLEAN, template_ok \in BOOLEAN :
        IF ok
        THEN /\ pc' = "generate"
             /\ cur' = [cur EXCEPT
                           !.prompt = IF template_ok
                                      THEN <<"<|assistant|>">>
                                      ELSE <<"\n", "\n">>]
             /\ UNCHANGED <<out, env>>
        ELSE /\ env' = RestoredEnv(env, cur.previous)
             /\ PrintFailure(<<"MLX model not available offline. Please open Settings to download it.">>)
             /\ MainReturns(PrintValue)
    /\ OneShotFrame

\* generate(...) with temp and top_p, again without them on TypeError;
\* the cleanup and the success object, or except Exception: return 4
MainGenerate ==
    /\ pc = "generate"
    /\ \E o \in GenOutcomes(cur.prompt) :
        IF FallsBack(cur, o)
        THEN /\ cur' = [cur EXCEPT !.sampling = FALSE]
             /\ UNCHANGED <<pc, out>>
        ELSE IF o.kind # "return"
        THEN /\ PrintFailure(<<"<exc>">>)
             /\ MainReturns(PyInt(4))
        ELSE /\ PrintSuccess(Cleanup(o.generated, cur.prompt))
             /\ MainReturns(PyInt(0))
    /\ UNCHANGED env
    /\ OneShotFrame

\* sys.exit(value): None is exit status 0, an int is that status
ExitStatus(value) == IF value = None THEN 0 ELSE value.v

\* sys.exit(main())
MainExit ==
    /\ pc = "returned"
    /\ pc' = "exited"
    /\ cur' = [cur EXCEPT !.status = ExitStatus(cur.ret)]
    /\ UNCHANGED <<out, env>>
    /\ OneShotFrame

OneShotNext ==
    \/ MainImport
    \/ MainArgs
    \/ MainRead
    \/ MainLoad
    \/ MainLoadEnds
    \/ MainGenerate
    \/ MainExit

OneShotSpec == OneShotInit /\ [][OneShotNext]_vars

\* C38: when the script exits it has printed one object, and its exit
\* status is 0 exactly when that object is a {success: true} result.
C38_ExitStatus ==
    pc = "exited" =>
        /\ Len(out) = 1
        /\ cur.status = 0 <=> out[1].success

(***************************************************************************)
(* parakeet_transcribe.py: setup_ffmpeg_path().  A path is the sequence of *)
(* its components ("/usr", "/local", "/bin"), PATH a sequence of such      *)
(* components and ":"; `x in y` on two strings is then the occurrence of   *)
(* one sequence in the other.  env is os.environ restricted to PATH and    *)
(* PARAKEET_FFMPEG_PATH, cur.dirs and cur.files are the file system.       *)
(***************************************************************************)
Homebrew == <<"/opt", "/homebrew", "/bin">>
UsrLocalBin == <<"/usr", "/local", "/bin">>
UsrBin == <<"/usr", "/bin">>
MacPorts == <<"/opt", "/local", "/bin">>
UsrLocal == <<"/usr", "/local">>
Tools == <<"/tools">>
Empty == <<"/empty">>
Nowhere == <<"/nowhere">>

\* common_paths, in order
CommonPaths == <<Homebrew, UsrLocalBin, UsrBin, MacPorts>>

\* os.path.join(dir, "ffmpeg")
JoinFfmpeg(dir) == dir \o <<"/ffmpeg">>

\* os.path.dirname(path), for a path of two components or more
Dirname(path) == SubSeq(path, 1, Len(path) - 1)

RECURSIVE JoinPaths(_)
\* ":".join(paths)
JoinPaths(paths) ==
    IF paths = <<>> THEN <<>>
    ELSE IF Len(paths) = 1 THEN paths[1]
    ELSE paths[1] \o <<":">> \o JoinPaths(Tail(paths))

\* the file systems setup_ffmpeg_path is run on: the directories and the
\* files there are
FileSystems ==
    {[dirs |-> {Homebrew, UsrLocalBin, UsrBin, UsrLocal, Tools, Empty},
      files |-> {JoinFfmpeg(Tools), JoinFfmpeg(UsrLocal)}],
     [dirs |-> {UsrBin, Tools, Empty},
      files |-> {JoinFfmpeg(Tools)}]}

\* a value of os.environ: the string s
EnvStr(s) == [t |-> "str", v |-> s]

\* the values of PARAKEET_FFMPEG_PATH, Absent when it is not set
CustomPaths ==
    {Absent} \cup
    {EnvStr(s) : s \in {<<" ">>, Tools, <<" ">> \o Tools \o <<" ">>,
                     JoinFfmpeg(Tools), UsrLocal, JoinFfmpeg(UsrLocal),
                     Empty, Nowhere}}

\* the values of PATH, Absent when it is not set
StartPaths ==
    {Absent} \cup
    {EnvStr(s) : s \in {<<>>, UsrBin, JoinPaths(<<UsrLocalBin, UsrBin>>),
                     JoinPaths(<<Tools, UsrBin>>),
                     JoinPaths(<<Homebrew, UsrLocalBin, UsrBin, MacPorts>>)}}

\* os.environ.get(key, "")
EnvGet(e, key) == IF e[key] = Absent THEN <<>> ELSE e[key].v

RECURSIVE Additional(_, _, _)
\* [path for path in common_paths if os.path.isdir(path) and path not in
\* current_path]
Additional(paths, fs, current_path) ==
    IF paths = <<>> THEN <<>>
    ELSE (IF Head(paths) \in fs.dirs /\ ~Occurs(Head(paths), current_path)
          THEN <<Head(paths)>> ELSE <<>>)
         \o Additional(Tail(paths), fs, current_path)

\* the fallback to the common installation paths
CommonFallback(e, fs) ==
    LET current_path == EnvGet(e, "PATH")
        additional_paths == Additional(CommonPaths, fs, current_path)
    IN  IF additional_paths # <<>>
        THEN [e EXCEPT !["PATH"] =
                 EnvStr(JoinPaths(additional_paths \o <<current_path>>))]
        ELSE e

\* f"{dir}:{current_path}" put in PATH if dir not in current_path
Prepend(e, dir) ==
    LET current_path == EnvGet(e, "PATH")
    IN  IF ~Occurs(dir, current_path)
        THEN [e EXCEPT !["PATH"] = EnvStr(dir \o <<":">> \o current_path)]
        ELSE e

\* setup_ffmpeg_path(): os.environ when it returns
setup_ffmpeg_path(e, fs) ==
    LET custom_ffmpeg_path == Strip(EnvGet(e, "PARAKEET_FFMPEG_PATH"))
    IN  IF custom_ffmpeg_path # <<>> /\ custom_ffmpeg_path \in fs.files
        THEN Prepend(e, Dirname(custom_ffmpeg_path))
        ELSE IF /\ custom_ffmpeg_path # <<>>
                /\ custom_ffmpeg_path \in fs.dirs
                /\ JoinFfmpeg(custom_ffmpeg_path) \in fs.files
        THEN Prepend(e, custom_ffmpeg_path)
        ELSE CommonFallback(e, fs)

FfmpegLocals(fs) ==
    [method |-> "setup_ffmpeg_path", dirs |-> fs.dirs, files |-> fs.files,
     first |-> Absent]

FfmpegInit ==
    /\ pc = "start"
    /\ \E fs \in FileSystems : cur = FfmpegLocals(fs)
    /\ \E path \in StartPaths, custom \in CustomPaths :
        env0 = [PATH |-> path, PARAKEET_FFMPEG_PATH |-> custom]
    /\ env = env0
    /\ out = <<>>
    /\ line = NoLine
    /\ nonblank = <<>>
    /\ outLine = <<>>
    /\ cache = <<>>
    /\ loadCalls = [k \in CacheKeys |-> 0]
    /\ loadReturns = [k \in CacheKeys |-> 0]
    /\ reqLoads = 0

FfmpegFrame ==
    UNCHANGED <<line, nonblank, out, outLine, cache, env0, loadCalls,
                loadReturns, reqLoads>>

\* the first call of setup_ffmpeg_path()
Setup ==
    /\ pc = "start"
    /\ pc' = "set_up"
    /\ env' = setup_ffmpeg_path(env, cur)
    /\ cur' = [cur EXCEPT !.first = env'["PATH"]]
    /\ FfmpegFrame

\* a second call
SetupAgain ==
    /\ pc = "set_up"
    /\ pc' = "set_up_again"
    /\ env' = setup_ffmpeg_path(env, cur)
    /\ UNCHANGED cur
    /\ FfmpegFrame

FfmpegNext == Setup \/ SetupAgain

FfmpegSpec == FfmpegInit /\ [][FfmpegNext]_vars

\* the colon-separated entries of a PATH value
Entries(path) ==
    {SubSeq(path, x[1], x[2]) :
        x \in {y \in (1..(Len(path) + 1)) \X (0..Len(path)) :
                  /\ y[2] >= y[1] - 1
                  /\ y[1] = 1 \/ path[y[1] - 1] = ":"
                  /\ y[2] = Len(path) \/ path[y[2] + 1] = ":"
                  /\ \A k \in y[1]..y[2] : path[k] # ":"}}

\* PARAKEET_FFMPEG_PATH as setup_ffmpeg_path reads it
CustomPath == Strip(EnvGet(env0, "PARAKEET_FFMPEG_PATH"))

\* PARAKEET_FFMPEG_PATH names a directory that contains an ffmpeg binary
CustomIsDirectory ==
    CustomPath \in cur.dirs /\ JoinFfmpeg(CustomPath) \in cur.files

\* PARAKEET_FFMPEG_PATH names the ffmpeg binary itself
CustomIsBinary == CustomPath \in cur.files

\* PARAKEET_FFMPEG_PATH is set and names neither
CustomIsInvalid ==
    CustomPath # <<>> /\ ~CustomIsDirectory /\ ~CustomIsBinary

CustomDirectoryOnPath ==
    /\ CustomIsDirectory => CustomPath \in Entries(EnvGet(env, "PATH"))
    /\ CustomIsBinary => Dirname(CustomPath) \in Entries(EnvGet(env, "PATH"))

InvalidFallsBack ==
    CustomIsInvalid =>
        \A i \in 1..Len(CommonPaths) :
            CommonPaths[i] \in cur.dirs
                => CommonPaths[i] \in Entries(EnvGet(env, "PATH"))

SecondCallNoChange ==
    pc = "set_up_again" => env["PATH"] = cur.first

\* C40: after setup_ffmpeg_path returns, a PARAKEET_FFMPEG_PATH directory
\* that contains ffmpeg (or the directory of the ffmpeg binary it names) is
\* one of the colon-separated entries of PATH; with an invalid custom path
\* every existing common installation directory is an entry of PATH; and a
\* second call leaves PATH as the first call left it.
C40_CustomOnPath ==
    pc \in {"set_up", "set_up_again"} =>
        /\ CustomDirectoryOnPath
        /\ InvalidFallsBack
        /\ SecondCallNoChange

(***************************************************************************)
(* parakeet_transcribe.py: main().  cur.argc is len(sys.argv), out is      *)
(* standard output, cur.status the exit status of the process, and         *)
(* cur.raised holds the message of the exception the outer handler caught. *)
(***************************************************************************)
\* len(sys.argv): no argument, one, two
TranscribeArgCounts == {1, 2, 3}

\* what model.transcribe(audio_path) does: raises, returns an object that
\* has no text attribute, or returns a result with a text
TranscribeResults ==
    {[t |-> "raise"], [t |-> "object"],
     [t |-> "result", text |-> None],
     [t |-> "result", text |-> [t |-> "str", v |-> ""]],
     [t |-> "result", text |-> [t |-> "str", v |-> "Hello world"]]}

\* len(sys.argv) != 2
WrongArgCountBelow(argc) == argc < 2

WrongArgCount(argc) == argc # 2

\* result.text if result.text else ""
ResultText(result) ==
    IF result.text.t = "None" \/ result.text.v = "" THEN ""
    ELSE result.text.v

TranscribeLocals(argc, fs) ==
    [method |-> "main", argc |-> argc, dirs |-> fs.dirs, files |-> fs.files,
     transcribe_calls |-> 0, result |-> None, raised |-> <<>>,
     status |-> None]

TranscribeInit ==
    /\ pc = "main"
    /\ \E argc \in TranscribeArgCounts, fs \in FileSystems :
        cur = TranscribeLocals(argc, fs)
    /\ \E path \in StartPaths, custom \in CustomPaths :
        env0 = [PATH |-> path, PARAKEET_FFMPEG_PATH |-> custom]
    /\ env = env0
    /\ out = <<>>
    /\ line = NoLine
    /\ nonblank = <<>>
    /\ outLine = <<>>
    /\ cache = <<>>
    /\ loadCalls = [k \in CacheKeys |-> 0]
    /\ loadReturns = [k \in CacheKeys |-> 0]
    /\ reqLoads = 0

TranscribeFrame ==
    UNCHANGED <<line, nonblank, outLine, cache, env0, loadCalls, loadReturns,
                reqLoads>>

\* except Exception as e: print the error object, sys.exit(1)
Caught(message) ==
    /\ out' = Append(out, [text |-> "", success |-> FALSE, error |-> message])
    /\ pc' = "exited"

\* setup_ffmpeg_path() and the ffmpeg warning, which goes to stderr
TranscribeSetup ==
    /\ pc = "main"
    /\ pc' = "args"
    /\ env' = setup_ffmpeg_path(env, cur)
    /\ UNCHANGED <<cur, out>>
    /\ TranscribeFrame

\* if len(sys.argv) != 2: usage on stderr, sys.exit(1)
TranscribeArgs ==
    /\ pc = "args"
    /\ IF WrongArgCount(cur.argc)
       THEN /\ pc' = "exited"
            /\ cur' = [cur EXCEPT !.status = 1]
       ELSE /\ pc' = "load"
            /\ UNCHANGED cur
    /\ UNCHANGED <<out, env>>
    /\ TranscribeFrame

\* model = from_pretrained(...): returns or raises
FromPretrained ==
    /\ pc = "load"
    /\ \E loads \in BOOLEAN :
        IF loads
        THEN /\ pc' = "exists"
             /\ UNCHANGED <<cur, out>>
        ELSE /\ Caught("model load failed")
             /\ cur' = [cur EXCEPT !.raised = <<"model load failed">>,
                                    !.status = 1]
    /\ UNCHANGED env
    /\ TranscribeFrame

\* if not os.path.exists(audio_path): raise FileNotFoundError
CheckExists ==
    /\ pc = "exists"
    /\ \E exists \in BOOLEAN :
        IF exists
        THEN /\ pc' = "access"
             /\ UNCHANGED <<cur, out>>
        ELSE /\ Caught("Audio file not found: <audio_path>")
             /\ cur' = [cur EXCEPT
                            !.raised = <<"Audio file not found: <audio_path>">>,
                            !.status = 1]
    /\ UNCHANGED env
    /\ TranscribeFrame

\* if not os.access(audio_path, os.R_OK): raise PermissionError
CheckAccess ==
    /\ pc = "access"
    /\ \E readable \in BOOLEAN :
        IF readable
        THEN /\ pc' = "transcribe"
             /\ UNCHANGED <<cur, out>>
        ELSE /\ Caught("Cannot read audio file: <audio_path>")
             /\ cur' = [cur EXCEPT
                            !.raised = <<"Cannot read audio file: <audio_path>">>,
                            !.status = 1]
    /\ UNCHANGED env
    /\ TranscribeFrame

\* result = model.transcribe(audio_path), the check of its text attribute,
\* and the print of the result object
ModelTranscribe ==
    /\ pc = "transcribe"
    /\ \E result \in TranscribeResults :
        CASE result.t = "raise" ->
                /\ Caught("transcription failed")
                /\ cur' = [cur EXCEPT
                               !.transcribe_calls = @ + 1,
                               !.raised = <<"transcription failed">>,
                               !.status = 1]
          [] result.t = "object" ->
                /\ Caught("Transcription result missing 'text' attribute")
                /\ cur' = [cur EXCEPT
                               !.transcribe_calls = @ + 1,
                               !.result = result,
                               !.raised =
                                 <<"Transcription result missing 'text' attribute">>,
                               !.status = 1]
          [] OTHER ->
                /\ out' = Append(out, [text |-> ResultText(result),
                                       success |-> TRUE])
                /\ pc' = "returned"
                /\ cur' = [cur EXCEPT !.transcribe_calls = @ + 1,
                                      !.result = result]
    /\ UNCHANGED env
    /\ TranscribeFrame

\* main() returns and the interpreter ends with status 0
TranscribeExit ==
    /\ pc = "returned"
    /\ pc' = "exited"
    /\ cur' = [cur EXCEPT !.status = 0]
    /\ UNCHANGED <<out, env>>
    /\ TranscribeFrame

TranscribeNext ==
    \/ TranscribeSetup
    \/ TranscribeArgs
    \/ FromPretrained
    \/ CheckExists
    \/ CheckAccess
    \/ ModelTranscribe
    \/ TranscribeExit

TranscribeSpec == TranscribeInit /\ [][TranscribeNext]_vars

\* the four failures of the claim: no file, unreadable file, model load,
\* transcription
TranscribeFailures ==
    {"Audio file not found: <audio_path>",
     "Cannot read audio file: <audio_path>",
     "model load failed",
     "transcription failed",
     "Transcription result missing 'text' attribute"}

\* C39: when main has ended, a wrong argument count gave exit status 1 with
\* no call of transcribe; one argument gave exactly one JSON object on
\* standard output, {text, success: true} with the transcribed text when
\* nothing was raised, and {text: "", success: false, error} with exit
\* status 1 when the file was missing or unreadable, the model failed to
\* load or transcription raised.
C39_MainOutcome ==
    pc = "exited" =>
        /\ cur.argc # 2 => cur.status = 1 /\ cur.transcribe_calls = 0
        /\ cur.argc = 2 =>
            /\ Len(out) = 1
            /\ cur.raised = <<>> =>
                /\ cur.transcribe_calls = 1
                /\ out[1] = [text |-> ResultText(cur.result),
                             success |-> TRUE]
            /\ cur.raised # <<>> =>
                /\ cur.raised[1] \in TranscribeFailures
                /\ out[1] = [text |-> "", success |-> FALSE,
                             error |-> cur.raised[1]]
                /\ cur.status = 1

\* main ended with status 1 after transcribe raised on its one argument,
\* and the error object is on standard output
C39_Witness ==
    /\ pc = "exited"
    /\ cur.argc = 2
    /\ cur.transcribe_calls = 1
    /\ cur.raised = <<"transcription failed">>
    /\ cur.status = 1

====
